---------------------------- MODULE Spec2Model ----------------------------
(***************************************************************************)
(* Model of the SpacemiT/Marvell MMP peripheral DMA engine (mmp_pdma):     *)
(* logical channels sharing physical channels, descriptor-chain builders,  *)
(* submission, activation, interrupt + tasklet completion.                 *)
(*                                                                         *)
(* Source: src/arch/riscv/boot/dts/spacemit/k1-x-lcd.dtsi, lines 347-2010  *)
(* (the file holds the C source of the driver).                            *)
(*                                                                         *)
(* Conventions                                                             *)
(*  - a descriptor is a slot of its channel's dma pool; slot 0 is the NULL *)
(*    pointer; PhysOf(c, s) is the bus address dma_pool_zalloc returned.   *)
(*  - a list_head list is the sequence of the slots linked on it.          *)
(*  - desc.dcmd is kept as three parts that occupy disjoint bits of the    *)
(*    32-bit word: the flag set (bits 14..31), ENDIRQEN (bit 21, the flag  *)
(*    "ENDIRQEN" of the set) and the length (bits 0..12, field len).       *)
(*  - bus addresses are drawn below 2^31, where "& 0xffffffff" keeps the   *)
(*    value; the high words (ddadrh, dsadrh, dtadrh) are then 0.           *)
(***************************************************************************)
EXTENDS Integers, Sequences, FiniteSets, TLC

(***************************************************************************)
(* Program constants                                                       *)
(***************************************************************************)
PDMA_MAX_DESC_BYTES == 8191
DDADR_STOP == 1
EBUSY == 16
ENOMEM == 12
\* "default 32 channel": the most physical channels a device has (DINT
\* holds one bit per channel)
MaxDmaChannels == 32

(***************************************************************************)
(* Bounds of the model                                                     *)
(***************************************************************************)
MaxPool == 3        \* descriptors a channel's dma pool can hold at once
MaxCookie == 2      \* cookies a channel hands out before the client stops
MaxSignals == 2     \* end-of-chain signals delivered to the driver in a run
MaxHeld == 1        \* descriptors a builder client holds when it asks for more

NoDesc == 0
NoPhy == -1
NoChan == 0

\* pdev->dma_channels ("#dma-channels") of the modelled device
DmaChannels == 2

Chans == {1, 2}
Phys == 0 .. DmaChannels - 1
\* Blocks the dma pool of channel c can hold: channel 2 has room for one
\* more than channel 1.
PoolCap(c) == IF c = 1 THEN MaxPool ELSE MaxPool + 1
Slots == 1 .. MaxPool + 1
PoolSlots(c) == 1 .. PoolCap(c)

\* chan->drcmr, the request line mmp_pdma_dma_xlate gives each channel
DrcmrOf(c) == 2 + c
\* A request line of a peripheral that no channel of Chans serves by
\* default and that the reservation table does not name
SpareLine == DrcmrOf(DmaChannels + 1)
Drcmrs == {DrcmrOf(c) : c \in Chans} \cup {SpareLine}

\* pdev->reserved_channels ("reserved-channels"): request line 4, that of
\* logical channel 2, owns physical channel 1.
reserved_channels == <<[chan_id |-> 1, drcmr |-> 4]>>

\* c->user_do_qos as mmp_pdma_dma_xlate sets it from the second dma cell
UserDoQos(c) == IF c = 1 THEN 0 ELSE 1

DmaDirs == {"DMA_MEM_TO_MEM", "DMA_MEM_TO_DEV", "DMA_DEV_TO_MEM",
            "DMA_DEV_TO_DEV"}

Min(a, b) == IF a < b THEN a ELSE b

\* Bus address of slot s of channel c's pool (dma_pool blocks are aligned,
\* so bit 0, DDADR_STOP, is never set in an address).
PhysOf(c, s) == 4096 * c + 64 * s

\* The slot whose bus address is a, or NoDesc.
SlotOfPhys(c, a) ==
    IF \E s \in Slots : PhysOf(c, s) = a
    THEN CHOOSE s \in Slots : PhysOf(c, s) = a
    ELSE NoDesc

\* A descriptor as dma_pool_zalloc returns it: all fields zero.
\* cb: async_tx.callback is set; tok (history): the cookie tx_submit
\* returned for the chain the descriptor was submitted with.
ZeroDesc ==
    [ddadr |-> 0, dsadr |-> 0, dtadr |-> 0, dcmd |-> {}, len |-> 0,
     cookie |-> 0, cb |-> FALSE, tok |-> 0]

ZeroConfig ==
    [src_addr |-> 0, dst_addr |-> 0, src_addr_width |-> 0,
     dst_addr_width |-> 0, src_maxburst |-> 0, dst_maxburst |-> 0]

VARIABLES
    chan,           \* chan[c]: the fields of struct mmp_pdma_chan
    desc,           \* desc[c][s]: the descriptor in slot s of c's pool
    alloc,          \* alloc[c]: the slots of c's pool that are allocated
    prepared,       \* prepared[c]: tx_list of each built, unsubmitted chain
    chain_pending,  \* chain_pending[c]
    chain_running,  \* chain_running[c]
    phy,            \* phy[p].vchan: the logical channel bound to p
    hw,             \* hw[p]: the hardware channel (DCSR run, DDADR, DINT bit)
    drcmr_reg,      \* drcmr_reg[r]: the DRCMR(r) request mapping register
    tasklet,        \* tasklet[c]: the channel's tasklet and its position
    cbLog,          \* cbLog[c]: the callback invocations, in order
    tokenLog,       \* tokenLog[c]: the cookies tx_submit returned, in order
    signals,        \* end-of-chain signals delivered to the handler so far
    oops,           \* the kernel dereferenced a NULL pointer
    last            \* the last call made and what it returned

vars == <<chan, desc, alloc, prepared, chain_pending, chain_running, phy,
          hw, drcmr_reg, tasklet, cbLog, tokenLog, signals, oops, last>>


(***************************************************************************)
(* Descriptor pool.  A builder works on a frame                            *)
(*   [desc, alloc, slots, first, prev, new, tx, nalloc, byte_align, ok,    *)
(*    why]                                                                 *)
(* desc/alloc/slots: the pool, first/prev/new: the locals of the builder,  *)
(* tx: first->tx_list, nalloc: allocations attempted in this call,         *)
(* why: "ok", or what made the builder fail ("nomem", "dir").              *)
(***************************************************************************)

\* dma_pool_zalloc(GFP_ATOMIC): NoDesc when the pool has no block left or
\* when this is the allocation the caller's environment lets fail
\* (failAt = k: the k-th allocation of the call returns NULL; 0: none).
PoolBlock(slots, al, nalloc, failAt) ==
    IF slots \ al = {} \/ nalloc + 1 = failAt
    THEN NoDesc
    ELSE CHOOSE s \in slots \ al : \A t \in slots \ al : s <= t

\* mmp_pdma_alloc_descriptor: the frame after one allocation attempt;
\* new = NoDesc on failure.
mmp_pdma_alloc_descriptor(b, failAt) ==
    LET s == PoolBlock(b.slots, b.alloc, b.nalloc, failAt) IN
    IF s = NoDesc
    THEN [b EXCEPT !.new = NoDesc, !.nalloc = @ + 1]
    ELSE [b EXCEPT !.new = s, !.nalloc = @ + 1,
                   !.alloc = @ \cup {s},
                   !.desc = [@ EXCEPT ![s] = ZeroDesc]]

\* mmp_pdma_free_desc_list: every descriptor linked on list goes back to
\* the pool.
FreeSlots(d, al, list) ==
    [desc |-> [s \in Slots |->
                  IF \E i \in 1 .. Len(list) : list[i] = s
                  THEN ZeroDesc ELSE d[s]],
     alloc |-> al \ {list[i] : i \in 1 .. Len(list)}]

NewFrame(c) ==
    [desc |-> desc[c], alloc |-> alloc[c], slots |-> PoolSlots(c),
     first |-> NoDesc, prev |-> NoDesc, new |-> NoDesc, tx |-> <<>>,
     nalloc |-> 0, byte_align |-> chan[c].byte_align, ok |-> TRUE,
     why |-> "ok"]

\* Variant: "fail:" frees nothing.
FailFrees_none(b) == <<>>
\* What "fail:" frees: mmp_pdma_free_desc_list(chan, &first->tx_list) if
\* first is set.
FailFrees(b) == IF b.first # NoDesc THEN b.tx ELSE <<>>

\* The "fail:" label of the three builders.
BuilderFail(b, why) ==
    LET f == FreeSlots(b.desc, b.alloc, FailFrees(b)) IN
    [b EXCEPT !.desc = f.desc, !.alloc = f.alloc, !.ok = FALSE,
              !.tx = <<>>, !.why = why]

\* get_max_burst_setting
get_max_burst_setting(max_burst_size) ==
    CASE max_burst_size = 8 -> "BURST8"
      [] max_burst_size = 16 -> "BURST16"
      [] max_burst_size = 32 -> "BURST32"
      [] max_burst_size = 64 -> "BURST64"
      [] OTHER -> "INVALID_BURST_SETTING"

\* pdev->max_burst_size as the probe leaves it when the device tree gives
\* none.
DEFAULT_MAX_BURST_SIZE == 32

\* addr & 0x7
Unaligned8(a) == a % 8 # 0

\* DCMD_LENGTH & n
LengthField(n) == n % (PDMA_MAX_DESC_BYTES + 1)

\* copy = min_t(size_t, len, PDMA_MAX_DESC_BYTES)
\* Variant: a descriptor may carry one byte more than DCMD_LENGTH holds.
MemcpyCopy_wide(len) == Min(len, PDMA_MAX_DESC_BYTES + 1)
MemcpyCopy(len) == Min(len, PDMA_MAX_DESC_BYTES)

(***************************************************************************)
(* mmp_pdma_prep_memcpy, the do { } while (len) loop.                      *)
(***************************************************************************)
RECURSIVE MemcpyLoop(_, _, _, _, _, _, _, _)
MemcpyLoop(c, b0, dcmd, dir, dma_dst, dma_src, len, failAt) ==
    LET b1 == mmp_pdma_alloc_descriptor(b0, failAt) IN
    IF b1.new = NoDesc THEN BuilderFail(b1, "nomem")
    ELSE
    LET new == b1.new
        copy == MemcpyCopy(len)
        ba == b1.byte_align \/ Unaligned8(dma_src) \/ Unaligned8(dma_dst)
        d1 == [b1.desc EXCEPT ![new].dcmd = dcmd,
                              ![new].len = LengthField(copy),
                              ![new].dsadr = dma_src,
                              ![new].dtadr = dma_dst]
    IN
    IF dir \notin {"DMA_MEM_TO_DEV", "DMA_DEV_TO_MEM", "DMA_MEM_TO_MEM"}
    THEN \* wrong direction: new is not on first->tx_list yet
         BuilderFail([b1 EXCEPT !.byte_align = ba,
                                !.desc[new].dcmd = dcmd,
                                !.desc[new].len =
                                    LengthField(copy)], "dir")
    ELSE
    LET first == IF b1.first = NoDesc THEN new ELSE b1.first
        d2 == IF b1.first = NoDesc THEN d1
              ELSE [d1 EXCEPT ![b1.prev].ddadr = PhysOf(c, new)]
        d3 == [d2 EXCEPT ![new].cookie = 0]
        b2 == [b1 EXCEPT !.desc = d3, !.first = first, !.prev = new,
                         !.byte_align = ba, !.tx = Append(@, new)]
        len2 == len - copy
        src2 == IF dir \in {"DMA_MEM_TO_DEV", "DMA_MEM_TO_MEM"}
                THEN dma_src + copy ELSE dma_src
        dst2 == IF dir \in {"DMA_DEV_TO_MEM", "DMA_MEM_TO_MEM"}
                THEN dma_dst + copy ELSE dma_dst
    IN
    IF len2 # 0
    THEN MemcpyLoop(c, b2, dcmd, dir, dst2, src2, len2, failAt)
    ELSE b2

\* Variant: the interrupt is asked for at the first descriptor.
FinishChain_first(b) ==
    [b EXCEPT !.desc[b.first].cookie = -EBUSY,
              !.desc[b.new].ddadr = DDADR_STOP,
              !.desc[b.first].dcmd = @ \cup {"ENDIRQEN"}]

\* The tail shared by prep_memcpy and prep_slave_sg: first's cookie, and
\* "last desc and fire IRQ".
FinishChain(b) ==
    [b EXCEPT !.desc[b.first].cookie = -EBUSY,
              !.desc[b.new].ddadr = DDADR_STOP,
              !.desc[b.new].dcmd = @ \cup {"ENDIRQEN"}]


(***************************************************************************)
(* mmp_pdma_config_write: the channel record after the call.               *)
(***************************************************************************)
WidthFlag(width) ==
    CASE width = 1 -> {"WIDTH1"}
      [] width = 2 -> {"WIDTH2"}
      [] width = 4 -> {"WIDTH4"}
      [] OTHER -> {}

BurstFlag(maxburst) ==
    CASE maxburst = 8 -> {"BURST8"}
      [] maxburst = 16 -> {"BURST16"}
      [] maxburst = 32 -> {"BURST32"}
      [] OTHER -> {}

mmp_pdma_config_write(ch, direction) ==
    LET cfg == ch.slave_config
        base == CASE direction = "DMA_DEV_TO_MEM" -> {"INCTRGADDR", "FLOWSRC"}
                  [] direction = "DMA_MEM_TO_DEV" -> {"INCSRCADDR", "FLOWTRG"}
                  [] OTHER -> ch.dcmd
        maxburst == CASE direction = "DMA_DEV_TO_MEM" -> cfg.src_maxburst
                      [] direction = "DMA_MEM_TO_DEV" -> cfg.dst_maxburst
                      [] OTHER -> 0
        width == CASE direction = "DMA_DEV_TO_MEM" -> cfg.src_addr_width
                   [] direction = "DMA_MEM_TO_DEV" -> cfg.dst_addr_width
                   [] OTHER -> 0
        addr == CASE direction = "DMA_DEV_TO_MEM" -> cfg.src_addr
                  [] direction = "DMA_MEM_TO_DEV" -> cfg.dst_addr
                  [] OTHER -> 0
    IN [ch EXCEPT !.dcmd = base \cup WidthFlag(width) \cup BurstFlag(maxburst),
                  !.dir = direction,
                  !.dev_addr = addr]

(***************************************************************************)
(* mmp_pdma_prep_slave_sg: for_each_sg and the inner do { } while (avail). *)
(* sgl is the sequence of the segments [addr, len].                        *)
(***************************************************************************)
\* avail = sg_dma_len(sgl), read when the walk reaches segment i
SgAvail(sgl, i) == sgl[1].len

RECURSIVE SgInner(_, _, _, _, _, _, _, _)
SgInner(c, b0, dcmd, dev_addr, dir, addr, avail, failAt) ==
    LET len == Min(avail, PDMA_MAX_DESC_BYTES)
        ba == b0.byte_align \/ Unaligned8(addr)
        b1 == mmp_pdma_alloc_descriptor([b0 EXCEPT !.byte_align = ba],
                                        failAt)
    IN
    IF b1.new = NoDesc THEN BuilderFail(b1, "nomem")
    ELSE
    LET new == b1.new
        d0 == [b1.desc EXCEPT ![new].dcmd = dcmd,
                              ![new].len = LengthField(len)]
    IN
    IF dir \notin {"DMA_MEM_TO_DEV", "DMA_DEV_TO_MEM"}
    THEN BuilderFail([b1 EXCEPT !.desc = d0], "dir")
    ELSE
    LET d1 == IF dir = "DMA_MEM_TO_DEV"
              THEN [d0 EXCEPT ![new].dsadr = addr, ![new].dtadr = dev_addr]
              ELSE [d0 EXCEPT ![new].dsadr = dev_addr, ![new].dtadr = addr]
        first == IF b1.first = NoDesc THEN new ELSE b1.first
        d2 == IF b1.first = NoDesc THEN d1
              ELSE [d1 EXCEPT ![b1.prev].ddadr = PhysOf(c, new)]
        d3 == [d2 EXCEPT ![new].cookie = 0]
        b2 == [b1 EXCEPT !.desc = d3, !.first = first, !.prev = new,
                         !.tx = Append(@, new)]
    IN
    IF avail - len # 0
    THEN SgInner(c, b2, dcmd, dev_addr, dir, addr + len, avail - len, failAt)
    ELSE b2

RECURSIVE SgOuter(_, _, _, _, _, _, _, _)
SgOuter(c, b0, dcmd, dev_addr, dir, sgl, i, failAt) ==
    IF i > Len(sgl) THEN b0
    ELSE
    LET b1 == SgInner(c, b0, dcmd, dev_addr, dir, sgl[i].addr,
                      SgAvail(sgl, i), failAt)
    IN IF ~b1.ok THEN b1
       ELSE SgOuter(c, b1, dcmd, dev_addr, dir, sgl, i + 1, failAt)

(***************************************************************************)
(* mmp_pdma_prep_dma_cyclic                                                *)
(***************************************************************************)
\* Variant: the period is not compared with PDMA_MAX_DESC_BYTES.
CyclicArgsBad_nomax(len, period_len) ==
    \/ len = 0
    \/ period_len = 0
    \/ len % period_len # 0
\* The argument checks made before the channel is touched:
\* !len || !period_len, len % period_len != 0, period_len > max.
CyclicArgsBad(len, period_len) ==
    \/ len = 0
    \/ period_len = 0
    \/ len % period_len # 0
    \/ period_len > PDMA_MAX_DESC_BYTES

\* new->desc.dcmd of a period descriptor: chan->dcmd | DCMD_ENDIRQEN
CyclicDcmd(dcmd) == dcmd \cup {"ENDIRQEN"}

\* Variant: the last period descriptor ends the chain.
CyclicLink_stop(c, first) == DDADR_STOP
\* "make the cyclic link": the ddadr written into the last descriptor
CyclicLink(c, first) == PhysOf(c, first)

RECURSIVE CyclicLoop(_, _, _, _, _, _, _, _, _)
CyclicLoop(c, b0, dcmd, dir, dma_src, dma_dst, len, period_len, failAt) ==
    LET b1 == mmp_pdma_alloc_descriptor(b0, failAt) IN
    IF b1.new = NoDesc THEN BuilderFail(b1, "nomem")
    ELSE
    LET new == b1.new
        d1 == [b1.desc EXCEPT ![new].dcmd = CyclicDcmd(dcmd),
                              ![new].len = LengthField(period_len),
                              ![new].dsadr = dma_src,
                              ![new].dtadr = dma_dst]
        first == IF b1.first = NoDesc THEN new ELSE b1.first
        d2 == IF b1.first = NoDesc THEN d1
              ELSE [d1 EXCEPT ![b1.prev].ddadr = PhysOf(c, new)]
        d3 == [d2 EXCEPT ![new].cookie = 0]
        b2 == [b1 EXCEPT !.desc = d3, !.first = first, !.prev = new,
                         !.tx = Append(@, new)]
        len2 == len - period_len
        src2 == IF dir = "DMA_MEM_TO_DEV" THEN dma_src + period_len
                ELSE dma_src
        dst2 == IF dir = "DMA_MEM_TO_DEV" THEN dma_dst
                ELSE dma_dst + period_len
    IN
    IF len2 # 0
    THEN CyclicLoop(c, b2, dcmd, dir, src2, dst2, len2, period_len, failAt)
    ELSE [b2 EXCEPT !.desc[first].cookie = -EBUSY,
                    !.desc[new].ddadr = CyclicLink(c, first)]


(***************************************************************************)
(* Physical channel registry                                               *)
(***************************************************************************)
\* Variant: no physical channel counts as reserved.
is_channel_reserved_none(chan_id) == FALSE
\* is_channel_reserved
is_channel_reserved(chan_id) ==
    \E i \in 1 .. Len(reserved_channels) :
        reserved_channels[i].chan_id = chan_id

\* The physical index reserved for drcmr, or NoPhy.
lookup_phy_for_drcmr(drcmr) ==
    IF \E i \in 1 .. Len(reserved_channels) :
           reserved_channels[i].drcmr = drcmr
    THEN LET i == CHOOSE i \in 1 .. Len(reserved_channels) :
                    /\ reserved_channels[i].drcmr = drcmr
                    /\ \A j \in 1 .. i - 1 :
                          reserved_channels[j].drcmr # drcmr
         IN reserved_channels[i].chan_id
    ELSE NoPhy

\* Variant: every channel has priority 0.
PrioOf_flat(i) == 0
\* (i & 0xf) >> 2
PrioOf(i) == (i % 16) \div 4

\* The last priority the search loop visits.
MaxPrio(dma_channels) == PrioOf(dma_channels - 1)

\* Variant: a physical channel is taken whether it is bound or not.
PhyFree_any(ph, i) == TRUE
\* !phy->vchan
PhyFree(ph, i) == ph[i].vchan = NoChan

\* The inner for loop of lookup_phy for one priority: the indices, among
\* 0 .. n - 1, that it does not skip and finds unbound.
PhyHits(ph, n, prio) ==
    {i \in 0 .. n - 1 :
        /\ prio = PrioOf(i)
        /\ ~is_channel_reserved(i)
        /\ PhyFree(ph, i)}

\* The outer for loop of lookup_phy from priority prio on: the first index
\* the inner loop, which runs in ascending order, comes upon; NoPhy when
\* the last priority has been searched.
RECURSIVE SearchPhy(_, _, _)
SearchPhy(ph, n, prio) ==
    IF prio > MaxPrio(n) THEN NoPhy
    ELSE LET hits == PhyHits(ph, n, prio) IN
         IF hits # {}
         THEN CHOOSE i \in hits : \A j \in hits : i <= j
         ELSE SearchPhy(ph, n, prio + 1)

\* lookup_phy: the physical index bound to the caller, or NoPhy.
\* ph is the phy table, n the number of physical channels.
lookup_phy(ph, n, drcmr) ==
    LET r == lookup_phy_for_drcmr(drcmr) IN
    IF r # NoPhy
    THEN IF PhyFree(ph, r) THEN r ELSE NoPhy
    ELSE SearchPhy(ph, n, 0)

(***************************************************************************)
(* The engine state the queue operations work on:                          *)
(*   [ch, pend, run, phy, hw, drcmr_reg]                                   *)
(* ch: the channel record, pend/run: its two lists.                        *)
(***************************************************************************)
EngineOf(c) ==
    [ch |-> chan[c], pend |-> chain_pending[c], run |-> chain_running[c],
     phy |-> phy, hw |-> hw, drcmr_reg |-> drcmr_reg]

\* Variant: the entry of the phy table stays bound.
mmp_pdma_free_phy_keep(c, e) ==
    IF e.ch.phy = NoPhy THEN e
    ELSE [e EXCEPT !.drcmr_reg[e.ch.drcmr] = NoPhy,
                   !.ch.phy = NoPhy]
\* mmp_pdma_free_phy
mmp_pdma_free_phy(c, e) ==
    IF e.ch.phy = NoPhy THEN e
    ELSE [e EXCEPT !.drcmr_reg[e.ch.drcmr] = NoPhy,
                   !.phy[e.ch.phy].vchan = NoChan,
                   !.ch.phy = NoPhy]

\* phy->vchan->drcmr as the caller c, whose record is e.ch, sees it
VchanDrcmr(c, e, p) ==
    IF e.phy[p].vchan = c THEN e.ch.drcmr ELSE chan[e.phy[p].vchan].drcmr

\* enable_chan(chan->phy) after set_desc(chan->phy, addr)
set_desc_enable_chan(c, e, addr) ==
    LET p == e.ch.phy IN
    IF p = NoPhy THEN e
    ELSE IF e.phy[p].vchan = NoChan
         THEN [e EXCEPT !.hw[p].ddadr = addr]
         ELSE [e EXCEPT !.hw[p].ddadr = addr,
                        !.hw[p].run = TRUE,
                        !.drcmr_reg[VchanDrcmr(c, e, p)] = p]

\* disable_chan(chan->phy).  stopped: the poll of DCSR saw the stopped
\* state before its 1000 rounds were over; otherwise the function warns
\* and returns with the engine still at work.
disable_chan(e, stopped) ==
    IF e.ch.phy = NoPhy THEN e
    ELSE IF stopped THEN [e EXCEPT !.hw[e.ch.phy].run = FALSE]
    ELSE e

\* The prefix of the pending list that start_pending_queue moves: up to
\* and including the first descriptor whose ddadr has DDADR_STOP.
RECURSIVE PendingPrefix(_, _)
PendingPrefix(d, list) ==
    IF list = <<>> THEN <<>>
    ELSE IF d[Head(list)].ddadr % 2 = DDADR_STOP
         THEN <<Head(list)>>
         ELSE <<Head(list)>> \o PendingPrefix(d, Tail(list))


\* Variant: the channel never counts as busy.
StillBusy_never(ch) == FALSE
\* "still in running, irq will start the pending list" (line 794)
StillBusy(ch) == ch.status = "DMA_IN_PROGRESS"

\* Variant: the last descriptor of the running list is programmed.
FirstRunning_last(run) == run[Len(run)]
\* list_first_entry(&chan->chain_running, ...) (lines 829-830)
FirstRunning(run) == Head(run)

\* start_pending_queue: the engine state after the call and its return
\* value (0: started, -1: nothing started).  d is the channel's pool.
start_pending_queue(c, e, d) ==
    IF StillBusy(e.ch)
    THEN [e |-> e, ret |-> -1]
    ELSE IF e.pend = <<>>
    THEN [e |-> mmp_pdma_free_phy(c, e), ret |-> -1]
    ELSE
    LET p == IF e.ch.phy # NoPhy THEN e.ch.phy
             ELSE lookup_phy(e.phy, DmaChannels, e.ch.drcmr)
    IN
    IF p = NoPhy THEN [e |-> e, ret |-> -1]
    ELSE
    LET e1 == [e EXCEPT !.ch.phy = p, !.phy[p].vchan = c]
        moved == PendingPrefix(d, e1.pend)
        run2 == e1.run \o moved
        e2 == [e1 EXCEPT !.pend = SubSeq(@, Len(moved) + 1, Len(@)),
                         !.run = run2]
        e3 == set_desc_enable_chan(c, e2, PhysOf(c, FirstRunning(run2)))
    IN [e |-> [e3 EXCEPT !.ch.idle = FALSE,
                         !.ch.status = "DMA_IN_PROGRESS",
                         !.ch.bytes_residue = 0],
        ret |-> 0]

\* mmp_pdma_qos_get / mmp_pdma_qos_put on a channel record
mmp_pdma_qos_get(ch) ==
    IF ch.user_do_qos # 0 THEN ch
    ELSE IF ch.qos_count = 0 THEN [ch EXCEPT !.qos_count = 1] ELSE ch

mmp_pdma_qos_put(ch) ==
    IF ch.user_do_qos # 0 THEN ch
    ELSE IF ch.qos_count = 1 THEN [ch EXCEPT !.qos_count = 0] ELSE ch

\* mmp_pdma_residue.  curr is the value read from the live address
\* register; d is the pool, run the running list.
RECURSIVE ResidueWalk(_, _, _, _, _, _, _, _)
ResidueWalk(d, list, dir, cyclic, cookie, curr, residue, passed) ==
    IF list = <<>> THEN residue
    ELSE
    LET sw == d[Head(list)]
        start == IF dir = "DMA_DEV_TO_MEM" THEN sw.dtadr ELSE sw.dsadr
        end == start + sw.len
        hit == ~passed /\ curr >= start /\ curr <= end
        residue2 == IF passed THEN residue + sw.len
                    ELSE IF hit THEN residue + (end - curr)
                    ELSE residue
        passed2 == passed \/ hit
    IN
    IF cyclic \/ "ENDIRQEN" \notin sw.dcmd
    THEN ResidueWalk(d, Tail(list), dir, cyclic, cookie, curr, residue2,
                     passed2)
    ELSE IF sw.cookie = cookie THEN residue2
    ELSE ResidueWalk(d, Tail(list), dir, cyclic, cookie, curr, 0, FALSE)

mmp_pdma_residue(ch, d, run, cookie, curr) ==
    IF ch.phy = NoPhy THEN ch.bytes_residue
    ELSE ResidueWalk(d, run, ch.dir, ch.cyclic_first # NoDesc, cookie, curr,
                     0, FALSE)

(***************************************************************************)
(* State after mmp_pdma_probe / mmp_pdma_chan_init / mmp_pdma_dma_xlate    *)
(***************************************************************************)
InitChan(c) ==
    [phy |-> NoPhy, dir |-> "DMA_MEM_TO_MEM", dcmd |-> {}, dev_addr |-> 0,
     cyclic_first |-> NoDesc, status |-> "DMA_COMPLETE",
     bytes_residue |-> 0, byte_align |-> FALSE, idle |-> FALSE,
     qos_count |-> 0, user_do_qos |-> UserDoQos(c),
     slave_config |-> ZeroConfig, desc_pool |-> FALSE,
     drcmr |-> DrcmrOf(c), cookie |-> 0, completed_cookie |-> 0]

IdleTasklet == [sched |-> FALSE, pc |-> "idle", cleanup |-> <<>>,
                cb |-> NoDesc]

\* last: the builder call made last (op "none" after any other step), its
\* arguments, the chain it returned (<<>>: NULL) and why.
NoCall == [op |-> "none", c |-> NoChan, arg |-> <<>>, ret |-> <<>>,
           why |-> "none"]
Call(op, c, arg, ret, why) ==
    [op |-> op, c |-> c, arg |-> arg, ret |-> ret, why |-> why]

\* The descriptor lists, tasklets and hardware channels after the probe
InitEngine ==
    /\ desc = [c \in Chans |-> [s \in Slots |-> ZeroDesc]]
    /\ alloc = [c \in Chans |-> {}]
    /\ prepared = [c \in Chans |-> {}]
    /\ chain_pending = [c \in Chans |-> <<>>]
    /\ chain_running = [c \in Chans |-> <<>>]
    /\ hw = [p \in Phys |-> [run |-> FALSE, ddadr |-> 0, dint |-> FALSE]]
    /\ tasklet = [c \in Chans |-> IdleTasklet]
    /\ cbLog = [c \in Chans |-> <<>>]
    /\ tokenLog = [c \in Chans |-> <<>>]
    /\ signals = 0
    /\ oops = FALSE
    /\ last = NoCall

Init ==
    /\ chan = [c \in Chans |-> InitChan(c)]
    /\ phy = [p \in Phys |-> [vchan |-> NoChan]]
    /\ drcmr_reg = [r \in Drcmrs |-> NoPhy]
    /\ InitEngine

\* Writes an engine state back to the variables of channel c.
SetEngine(c, e) ==
    /\ chan' = [chan EXCEPT ![c] = e.ch]
    /\ chain_pending' = [chain_pending EXCEPT ![c] = e.pend]
    /\ chain_running' = [chain_running EXCEPT ![c] = e.run]
    /\ phy' = e.phy
    /\ hw' = e.hw
    /\ drcmr_reg' = e.drcmr_reg


(***************************************************************************)
(* Client operations.  Each is one call of the dmaengine entry point; the  *)
(* client passes a channel whose resources it has allocated.               *)
(***************************************************************************)
\* Variant: the lock of the dequeue is still held while the callbacks of
\* the cleanup list are invoked.
TaskletLocks_late(pc) == IF pc = "cleanup" THEN {"desc_lock"} ELSE {}
\* The locks dma_do_tasklet holds at each position at which other contexts
\* can run: every spin_lock_irqsave(&chan->desc_lock) before the position
\* has its spin_unlock_irqrestore before it too, and pdev->phy_lock is
\* taken and released inside lookup_phy, mmp_pdma_free_phy and enable_chan.
TaskletLocks(pc) ==
    CASE pc = "idle" -> {}          \* not running
      [] pc = "checked" -> {}       \* line 1532, after the unlock
      [] pc = "cyclic" -> {}        \* line 1534, before the lock of 1535
      [] pc = "cyclic_cb" -> {}     \* line 1540, after the unlock of 1538
      [] pc = "cleanup" -> {}       \* line 1594, after the unlock of 1587

\* A client call on channel c gets chan->desc_lock (it spins while the
\* tasklet holds it) and finds the descriptor pool.
Usable(c) ==
    /\ ~oops
    /\ chan[c].desc_pool
    /\ "desc_lock" \notin TaskletLocks(tasklet[c].pc)

\* The client attaches its callback to the descriptor a builder returned.
ClientCallback(d, first) == [d EXCEPT ![first].cb = TRUE]

\* What last keeps of an alloc_chan_resources: only the call that directly
\* follows a free_chan_resources of the same channel is kept, with its
\* return value.
AfterFree(c, l, ret) ==
    IF l.op = "free_chan_resources" /\ l.c = c
    THEN Call("alloc_chan_resources", c, <<>>, ret,
              IF ret = 1 THEN "ok" ELSE "nomem")
    ELSE NoCall

\* mmp_pdma_alloc_chan_resources; poolOk: dma_pool_create succeeded.
AllocChanResources(c) ==
    /\ ~oops
    /\ \E poolOk \in BOOLEAN :
        IF chan[c].desc_pool
        THEN /\ UNCHANGED <<chan, phy, drcmr_reg>>
             /\ last' = AfterFree(c, last, 1)
        ELSE IF ~poolOk
        THEN /\ UNCHANGED <<chan, phy, drcmr_reg>>
             /\ last' = AfterFree(c, last, 0 - ENOMEM)
        ELSE LET e0 == [EngineOf(c) EXCEPT !.ch.desc_pool = TRUE,
                                          !.ch.status = "DMA_COMPLETE",
                                          !.ch.dir = "DMA_MEM_TO_MEM",
                                          !.ch.dcmd = {}]
                 e1 == mmp_pdma_free_phy(c, e0)
                 e2 == [e1 EXCEPT !.ch.idle = TRUE, !.ch.dev_addr = 0]
             IN /\ chan' = [chan EXCEPT ![c] = e2.ch]
                /\ phy' = e2.phy
                /\ drcmr_reg' = e2.drcmr_reg
                /\ last' = AfterFree(c, last, 1)
    /\ UNCHANGED <<desc, alloc, prepared, chain_pending, chain_running, hw,
                   tasklet, cbLog, tokenLog, signals, oops>>

\* mmp_pdma_config
Config(c, Cfgs) ==
    /\ Usable(c)
    /\ \E cfg \in Cfgs :
          chan' = [chan EXCEPT ![c].slave_config = cfg]
    /\ last' = NoCall
    /\ UNCHANGED <<desc, alloc, prepared, chain_pending, chain_running, phy,
                   hw, drcmr_reg, tasklet, cbLog, tokenLog, signals, oops>>

\* chan->dir and chan->dcmd after the "if (!chan->dir)" block of
\* mmp_pdma_prep_memcpy (DMA_MEM_TO_MEM is 0).
MemcpyDefaults(ch) ==
    IF ch.dir = "DMA_MEM_TO_MEM"
    THEN [ch EXCEPT !.dcmd = {"INCTRGADDR", "INCSRCADDR",
                              get_max_burst_setting(DEFAULT_MAX_BURST_SIZE)}]
    ELSE ch

\* Variant: a zero length is not rejected.
MemcpyArgsBad_never(len) == FALSE
\* The "if (!len) return NULL" of mmp_pdma_prep_memcpy
MemcpyArgsBad(len) == len = 0

\* mmp_pdma_prep_memcpy
PrepMemcpy(c, Lens, Srcs, Dsts, Fails) ==
    /\ Usable(c)
    /\ \E len \in Lens, src \in Srcs, dst \in Dsts, failAt \in Fails :
        LET arg == [len |-> len, src |-> src, dst |-> dst,
                    failAt |-> failAt, dir |-> chan[c].dir]
        IN
        IF MemcpyArgsBad(len)
        THEN /\ UNCHANGED <<chan, desc, alloc, prepared>>
             /\ last' = Call("prep_memcpy", c, arg, <<>>, "args")
        ELSE
        LET ch1 == MemcpyDefaults([chan[c] EXCEPT !.byte_align = FALSE])
            b == MemcpyLoop(c, [NewFrame(c) EXCEPT !.byte_align = FALSE],
                            ch1.dcmd, ch1.dir, dst, src, len, failAt)
        IN
        IF b.ok
        THEN LET f == FinishChain(b) IN
             /\ chan' = [chan EXCEPT ![c] =
                           [ch1 EXCEPT !.byte_align = b.byte_align,
                                       !.cyclic_first = NoDesc]]
             /\ desc' = [desc EXCEPT ![c] = ClientCallback(f.desc, f.first)]
             /\ alloc' = [alloc EXCEPT ![c] = f.alloc]
             /\ prepared' = [prepared EXCEPT ![c] = @ \cup {f.tx}]
             /\ last' = Call("prep_memcpy", c, arg, f.tx, "ok")
        ELSE /\ chan' = [chan EXCEPT ![c] =
                           [ch1 EXCEPT !.byte_align = b.byte_align]]
             /\ desc' = [desc EXCEPT ![c] = b.desc]
             /\ alloc' = [alloc EXCEPT ![c] = b.alloc]
             /\ UNCHANGED prepared
             /\ last' = Call("prep_memcpy", c, arg, <<>>, b.why)
    /\ UNCHANGED <<chain_pending, chain_running, phy, hw, drcmr_reg, tasklet,
                   cbLog, tokenLog, signals, oops>>

\* mmp_pdma_prep_slave_sg
PrepSlaveSg(c, Sgls, Dirs, Fails) ==
    /\ Usable(c)
    /\ \E sgl \in Sgls, dir \in Dirs, failAt \in Fails :
        LET arg == [sgl |-> sgl, dir |-> dir, failAt |-> failAt] IN
        IF sgl = <<>>
        THEN /\ UNCHANGED <<chan, desc, alloc, prepared>>
             /\ last' = Call("prep_slave_sg", c, arg, <<>>, "args")
        ELSE
        LET ch1 == mmp_pdma_config_write(
                       [chan[c] EXCEPT !.byte_align = TRUE], dir)
            b == SgOuter(c, [NewFrame(c) EXCEPT !.byte_align = TRUE],
                         ch1.dcmd, ch1.dev_addr, dir, sgl, 1, failAt)
        IN
        IF b.ok
        THEN LET f == FinishChain(b) IN
             /\ chan' = [chan EXCEPT ![c] =
                           [ch1 EXCEPT !.byte_align = b.byte_align,
                                       !.dir = dir,
                                       !.cyclic_first = NoDesc]]
             /\ desc' = [desc EXCEPT ![c] = ClientCallback(f.desc, f.first)]
             /\ alloc' = [alloc EXCEPT ![c] = f.alloc]
             /\ prepared' = [prepared EXCEPT ![c] = @ \cup {f.tx}]
             /\ last' = Call("prep_slave_sg", c, arg, f.tx, "ok")
        ELSE /\ chan' = [chan EXCEPT ![c] =
                           [ch1 EXCEPT !.byte_align = b.byte_align]]
             /\ desc' = [desc EXCEPT ![c] = b.desc]
             /\ alloc' = [alloc EXCEPT ![c] = b.alloc]
             /\ UNCHANGED prepared
             /\ last' = Call("prep_slave_sg", c, arg, <<>>, b.why)
    /\ UNCHANGED <<chain_pending, chain_running, phy, hw, drcmr_reg, tasklet,
                   cbLog, tokenLog, signals, oops>>

\* mmp_pdma_prep_dma_cyclic; Reqs: the (len, period_len) pairs tried.
PrepCyclic(c, Reqs, Bufs, Dirs, Fails) ==
    /\ Usable(c)
    /\ \E rq \in Reqs, buf_addr \in Bufs, dir \in Dirs, failAt \in Fails :
        LET arg == [len |-> rq.len, period_len |-> rq.period_len,
                    buf_addr |-> buf_addr, dir |-> dir, failAt |-> failAt]
        IN
        IF CyclicArgsBad(rq.len, rq.period_len)
        THEN /\ UNCHANGED <<chan, desc, alloc, prepared>>
             /\ last' = Call("prep_dma_cyclic", c, arg, <<>>, "args")
        ELSE
        LET ch1 == mmp_pdma_config_write(chan[c], dir) IN
        IF dir \notin {"DMA_MEM_TO_DEV", "DMA_DEV_TO_MEM"}
        THEN /\ chan' = [chan EXCEPT ![c] = ch1]
             /\ UNCHANGED <<desc, alloc, prepared>>
             /\ last' = Call("prep_dma_cyclic", c, arg, <<>>, "dir")
        ELSE
        LET dma_src == IF dir = "DMA_MEM_TO_DEV" THEN buf_addr
                       ELSE ch1.dev_addr
            dma_dst == IF dir = "DMA_MEM_TO_DEV" THEN ch1.dev_addr
                       ELSE buf_addr
            b == CyclicLoop(c, NewFrame(c), ch1.dcmd, dir, dma_src, dma_dst,
                            rq.len, rq.period_len, failAt)
        IN
        IF b.ok
        THEN /\ chan' = [chan EXCEPT ![c] =
                           [ch1 EXCEPT !.cyclic_first = b.first]]
             /\ desc' = [desc EXCEPT ![c] = ClientCallback(b.desc, b.first)]
             /\ alloc' = [alloc EXCEPT ![c] = b.alloc]
             /\ prepared' = [prepared EXCEPT ![c] = @ \cup {b.tx}]
             /\ last' = Call("prep_dma_cyclic", c, arg, b.tx, "ok")
        ELSE /\ chan' = [chan EXCEPT ![c] = ch1]
             /\ desc' = [desc EXCEPT ![c] = b.desc]
             /\ alloc' = [alloc EXCEPT ![c] = b.alloc]
             /\ UNCHANGED prepared
             /\ last' = Call("prep_dma_cyclic", c, arg, <<>>, b.why)
    /\ UNCHANGED <<chain_pending, chain_running, phy, hw, drcmr_reg, tasklet,
                   cbLog, tokenLog, signals, oops>>


\* dma_cookie_assign: the cookie given to the next descriptor of a channel
\* whose last cookie is cookie.
dma_cookie_assign(cookie) == cookie + 1

\* chan->cookie after i calls of dma_cookie_assign
RECURSIVE CookieAfter(_, _)
CookieAfter(cookie, i) ==
    IF i = 0 THEN cookie ELSE dma_cookie_assign(CookieAfter(cookie, i - 1))

\* The list_for_each_entry loop of mmp_pdma_tx_submit: child i of tx gets
\* the i-th cookie after chan->cookie; the last one is returned.
AssignCookies(d, tx, cookie) ==
    [s \in Slots |->
        IF \E i \in 1 .. Len(tx) : tx[i] = s
        THEN LET i == CHOOSE i \in 1 .. Len(tx) : tx[i] = s IN
             [d[s] EXCEPT !.cookie = CookieAfter(cookie, i),
                          !.tok = CookieAfter(cookie, Len(tx))]
        ELSE d[s]]

\* list_splice_tail_init(&desc->tx_list, &chan->chain_pending)
SpliceTail(list, tx) == list \o tx

\* mmp_pdma_tx_submit on a chain the client holds
TxSubmit(c) ==
    /\ Usable(c)
    /\ \E tx \in prepared[c] :
        /\ chan[c].cookie + Len(tx) <= MaxCookie
        /\ LET cookie == CookieAfter(chan[c].cookie, Len(tx)) IN
           /\ desc' = [desc EXCEPT ![c] =
                          AssignCookies(@, tx, chan[c].cookie)]
           /\ chan' = [chan EXCEPT ![c].cookie = cookie]
           /\ chain_pending' = [chain_pending EXCEPT ![c] =
                                   SpliceTail(@, tx)]
           /\ prepared' = [prepared EXCEPT ![c] = @ \ {tx}]
           /\ tokenLog' = [tokenLog EXCEPT ![c] = Append(@, cookie)]
           /\ last' = NoCall
    /\ UNCHANGED <<alloc, chain_running, phy, hw, drcmr_reg, tasklet, cbLog,
                   signals, oops>>

\* What last keeps of an issue_pending: only the call that directly
\* follows a terminate_all is kept, with the channel that terminated and
\* the physical channel it gave up.
AfterTerminate(c, l, ret) ==
    IF l.op = "terminate_all"
    THEN Call("issue_pending", c, [by |-> l.c, phy |-> l.arg.phy], <<>>,
              IF ret = 0 THEN "started" ELSE "none")
    ELSE NoCall

\* mmp_pdma_issue_pending
IssuePending(c) ==
    /\ Usable(c)
    /\ LET e0 == [EngineOf(c) EXCEPT !.ch = mmp_pdma_qos_get(@)]
           r == start_pending_queue(c, e0, desc[c])
           e1 == IF r.ret # 0
                 THEN [r.e EXCEPT !.ch = mmp_pdma_qos_put(@)]
                 ELSE r.e
       IN /\ SetEngine(c, e1)
          /\ last' = AfterTerminate(c, last, r.ret)
    /\ UNCHANGED <<desc, alloc, prepared, tasklet, cbLog, tokenLog, signals,
                   oops>>

\* mmp_pdma_pause_chan; Stops: the outcomes the poll of disable_chan
\* can have.
PauseChan(c, Stops) ==
    /\ Usable(c)
    /\ IF chan[c].phy = NoPhy
       THEN /\ UNCHANGED <<chan, hw>>
            /\ last' = NoCall
       ELSE \E stopped \in Stops :
            LET e == disable_chan(EngineOf(c), stopped) IN
            /\ hw' = e.hw
            /\ chan' = [chan EXCEPT ![c].status = "DMA_PAUSED"]
            /\ last' = NoCall
    /\ UNCHANGED <<desc, alloc, prepared, chain_pending, chain_running, phy,
                   drcmr_reg, tasklet, cbLog, tokenLog, signals, oops>>

\* The outcomes the poll of disable_chan(chan->phy) can have: it does not
\* poll when chan->phy is NULL.
PollOutcomes(ch, Stops) == IF ch.phy = NoPhy THEN {TRUE} ELSE Stops

\* mmp_pdma_terminate_all; Stops: the outcomes the poll of disable_chan
\* can have.  last keeps the physical channel the call found bound and
\* the lengths of the two queues it found.
TerminateAll(c, Stops) ==
    /\ Usable(c)
    /\ \E stopped \in PollOutcomes(chan[c], Stops) :
       LET e0 == disable_chan(EngineOf(c), stopped)
           e1 == mmp_pdma_free_phy(c, [e0 EXCEPT !.ch.status = "DMA_COMPLETE"])
           f1 == FreeSlots(desc[c], alloc[c], e1.pend)
           f2 == FreeSlots(f1.desc, f1.alloc, e1.run)
           e2 == [e1 EXCEPT !.pend = <<>>, !.run = <<>>,
                            !.ch.bytes_residue = 0, !.ch.idle = TRUE]
           e3 == [e2 EXCEPT !.ch = mmp_pdma_qos_put(@)]
       IN /\ SetEngine(c, e3)
          /\ desc' = [desc EXCEPT ![c] = f2.desc]
          /\ alloc' = [alloc EXCEPT ![c] = f2.alloc]
          /\ last' = Call("terminate_all", c,
                          [phy |-> chan[c].phy,
                           pend |-> Len(chain_pending[c]),
                           run |-> Len(chain_running[c])],
                          <<>>, IF stopped THEN "ok" ELSE "timeout")
    /\ UNCHANGED <<prepared, tasklet, cbLog, tokenLog, signals, oops>>

\* mmp_pdma_free_chan_resources.  tasklet_kill returns once the tasklet is
\* neither scheduled nor running; dma_pool_destroy drops every block of the
\* pool, those of chains the client still holds included.  last keeps the
\* physical channel the call found bound and the lengths of the two queues
\* it found.
FreeChanResources(c) ==
    /\ Usable(c)
    /\ ~tasklet[c].sched /\ tasklet[c].pc = "idle"
    /\ LET e0 == [EngineOf(c) EXCEPT !.pend = <<>>, !.run = <<>>,
                                    !.ch.desc_pool = FALSE,
                                    !.ch.idle = TRUE,
                                    !.ch.dev_addr = 0,
                                    !.ch.status = "DMA_COMPLETE",
                                    !.ch.dir = "DMA_MEM_TO_MEM",
                                    !.ch.dcmd = {}]
           e1 == mmp_pdma_free_phy(c, e0)
       IN /\ SetEngine(c, e1)
          /\ desc' = [desc EXCEPT ![c] = [s \in Slots |-> ZeroDesc]]
          /\ alloc' = [alloc EXCEPT ![c] = {}]
          /\ prepared' = [prepared EXCEPT ![c] = {}]
          /\ last' = Call("free_chan_resources", c,
                          [phy |-> chan[c].phy,
                           pend |-> Len(chain_pending[c]),
                           run |-> Len(chain_running[c])],
                          <<>>, "ok")
    /\ UNCHANGED <<tasklet, cbLog, tokenLog, signals, oops>>

(***************************************************************************)
(* Hardware and interrupt path                                             *)
(***************************************************************************)
\* The logical channel whose pool holds bus address a, or NoChan.
ChanOfPhys(a) ==
    IF \E c \in Chans : SlotOfPhys(c, a) # NoDesc
    THEN CHOOSE c \in Chans : SlotOfPhys(c, a) # NoDesc
    ELSE NoChan

\* The descriptor fetch of a running hardware channel, from the descriptor
\* at bus address addr up to the first one that has ENDIRQEN or carries the
\* stop marker: [irq, run, ddadr, wild].  wild: the engine was sent to an
\* address that holds no live descriptor (or around a chain that never
\* interrupts), what it does then is not determined by the driver.
RECURSIVE HwFetch(_, _)
HwFetch(addr, fuel) ==
    LET c == ChanOfPhys(addr)
        s == IF c = NoChan THEN NoDesc ELSE SlotOfPhys(c, addr)
    IN
    IF c = NoChan \/ fuel = 0
    THEN [irq |-> FALSE, run |-> TRUE, ddadr |-> addr, wild |-> TRUE]
    ELSE IF s \notin alloc[c]
    THEN [irq |-> FALSE, run |-> TRUE, ddadr |-> addr, wild |-> TRUE]
    ELSE
    LET hwd == desc[c][s]
        stop == hwd.ddadr % 2 = DDADR_STOP
    IN
    IF "ENDIRQEN" \in hwd.dcmd
    THEN [irq |-> TRUE, run |-> ~stop, ddadr |-> hwd.ddadr, wild |-> FALSE]
    ELSE IF stop
    THEN [irq |-> FALSE, run |-> FALSE, ddadr |-> hwd.ddadr, wild |-> FALSE]
    ELSE HwFetch(hwd.ddadr, fuel - 1)

\* The hardware channel p, running (DCSR_RUN), works through the
\* descriptors from DDADR on; at the end of one that has ENDIRQEN it sets
\* its bit of DINT, and it stops after one that carries DDADR_STOP.  A
\* wild engine either raises an interrupt and goes on, or stops.
HwEndIntr(p) ==
    /\ ~oops
    /\ hw[p].run
    /\ signals < MaxSignals
    /\ LET f == HwFetch(hw[p].ddadr, MaxPool + 1) IN
       IF f.wild
       THEN \E goes_on \in BOOLEAN :
               hw' = [hw EXCEPT ![p].run = goes_on,
                                ![p].dint = @ \/ goes_on]
       ELSE hw' = [hw EXCEPT ![p].run = f.run, ![p].ddadr = f.ddadr,
                             ![p].dint = @ \/ f.irq]
    /\ last' = NoCall
    /\ UNCHANGED <<chan, desc, alloc, prepared, chain_pending, chain_running,
                   phy, drcmr_reg, tasklet, cbLog, tokenLog, signals, oops>>

\* tasklet_schedule: a tasklet that is already scheduled is not scheduled
\* a second time.
tasklet_schedule(t) == [t EXCEPT !.sched = TRUE]

\* mmp_pdma_chan_handler for physical channel p whose DINT bit is set:
\* clear_chan_irq, then the two tasklet_schedule calls; the second one
\* dereferences phy->vchan without a check.  signals counts the signals
\* delivered to the handler.
ChanHandler(p) ==
    /\ ~oops
    /\ hw[p].dint
    /\ hw' = [hw EXCEPT ![p].dint = FALSE]
    /\ signals' = signals + 1
    /\ LET pchan == phy[p].vchan IN
       IF pchan # NoChan
       THEN /\ tasklet' = [tasklet EXCEPT ![pchan] =
                              tasklet_schedule(tasklet_schedule(@))]
            /\ UNCHANGED oops
       ELSE /\ oops' = TRUE
            /\ UNCHANGED tasklet
    /\ last' = NoCall
    /\ UNCHANGED <<chan, desc, alloc, prepared, chain_pending, chain_running,
                   phy, drcmr_reg, cbLog, tokenLog>>


(***************************************************************************)
(* dma_do_tasklet, in the steps other contexts can interleave with:        *)
(*   idle -> checked -> cyclic -> cyclic_cb -> idle                        *)
(*   idle -> checked -> cleanup (one descriptor per step) -> idle          *)
(***************************************************************************)
\* Variant: the tasklet never takes the channel for stopped.
Stopped_never(ch) == FALSE
\* "return if this channel has been stopped" (line 1528)
Stopped(ch) == ch.status = "DMA_COMPLETE"

\* Lines 1526-1532: the tasklet starts and tests chan->status.  last keeps
\* the run that returns at once.
TaskletCheck(c) ==
    /\ ~oops
    /\ tasklet[c].sched /\ tasklet[c].pc = "idle"
    /\ tasklet' = [tasklet EXCEPT ![c].sched = FALSE,
                      ![c].pc = IF Stopped(chan[c])
                                THEN "idle" ELSE "checked"]
    /\ last' = IF Stopped(chan[c])
               THEN Call("dma_do_tasklet", c, <<>>, <<>>, "stopped")
               ELSE NoCall
    /\ UNCHANGED <<chan, desc, alloc, prepared, chain_pending, chain_running,
                   phy, hw, drcmr_reg, cbLog, tokenLog, signals, oops>>

\* Line 1534: if (chan->cyclic_first), read without the lock.
TaskletCyclicTest(c) ==
    /\ ~oops
    /\ tasklet[c].pc = "checked"
    /\ chan[c].cyclic_first # NoDesc
    /\ tasklet' = [tasklet EXCEPT ![c].pc = "cyclic"]
    /\ last' = NoCall
    /\ UNCHANGED <<chan, desc, alloc, prepared, chain_pending, chain_running,
                   phy, hw, drcmr_reg, cbLog, tokenLog, signals, oops>>

\* Lines 1535-1538: desc = chan->cyclic_first, read again under the lock,
\* and dmaengine_desc_get_callback(&desc->async_tx, &cb).
TaskletCyclicGet(c) ==
    /\ ~oops
    /\ tasklet[c].pc = "cyclic"
    /\ IF chan[c].cyclic_first = NoDesc
       THEN /\ oops' = TRUE
            /\ UNCHANGED tasklet
       ELSE /\ tasklet' = [tasklet EXCEPT ![c].pc = "cyclic_cb",
                              ![c].cb = chan[c].cyclic_first]
            /\ UNCHANGED oops
    /\ last' = NoCall
    /\ UNCHANGED <<chan, desc, alloc, prepared, chain_pending, chain_running,
                   phy, hw, drcmr_reg, cbLog, tokenLog, signals>>

\* One dmaengine_desc_callback_invoke for descriptor s, as the log keeps
\* it: the descriptor, the token of its chain, whether it carries the
\* client's callback (the first-built descriptor does) and whether it is
\* an ENDIRQEN descriptor.
Invocation(c, s) ==
    [slot |-> s, tok |-> desc[c][s].tok, cb |-> desc[c][s].cb,
     endirq |-> "ENDIRQEN" \in desc[c][s].dcmd]

\* Line 1540: dmaengine_desc_callback_invoke(&cb, NULL) of the ring.
TaskletCyclicCb(c) ==
    /\ ~oops
    /\ tasklet[c].pc = "cyclic_cb"
    /\ cbLog' = [cbLog EXCEPT ![c] = Append(@, Invocation(c, tasklet[c].cb))]
    /\ tasklet' = [tasklet EXCEPT ![c].pc = "idle", ![c].cb = NoDesc]
    /\ last' = NoCall
    /\ UNCHANGED <<chan, desc, alloc, prepared, chain_pending, chain_running,
                   phy, hw, drcmr_reg, tokenLog, signals, oops>>

\* list_move(&desc->node, &chain_cleanup): list_move adds at the head.
CleanupAdd(cleanup, s) == <<s>> \o cleanup

\* The loop of lines 1557-1575: [run, cleanup, done] after moving the
\* descriptors up to and including the first one with ENDIRQEN; done is
\* that descriptor (NoDesc if the list has none).
RECURSIVE MoveCompleted(_, _, _)
MoveCompleted(d, run, cleanup) ==
    IF run = <<>> THEN [run |-> run, cleanup |-> cleanup, done |-> NoDesc]
    ELSE LET s == Head(run)
             cl == CleanupAdd(cleanup, s)
         IN IF "ENDIRQEN" \in d[s].dcmd
            THEN [run |-> Tail(run), cleanup |-> cl, done |-> s]
            ELSE MoveCompleted(d, Tail(run), cl)

\* The first descriptor of run that has ENDIRQEN, or NoDesc.
RECURSIVE FirstEndIrq(_, _)
FirstEndIrq(d, run) ==
    IF run = <<>> THEN NoDesc
    ELSE IF "ENDIRQEN" \in d[Head(run)].dcmd THEN Head(run)
    ELSE FirstEndIrq(d, Tail(run))

\* The values read from the live address register when the end interrupt
\* of descriptor fe is served: the end of fe (the descriptor was moved
\* completely, "end") or its start (an end-of-receive stop before any of
\* it, "eor").  Ways: the ways a transfer ends in this environment.
HwPositions(d, dir, fe, Ways) ==
    IF fe = NoDesc THEN {0}
    ELSE LET start == IF dir = "DMA_DEV_TO_MEM" THEN d[fe].dtadr
                      ELSE d[fe].dsadr
         IN {start + d[fe].len : w \in Ways \cap {"end"}}
            \cup {start : w \in Ways \cap {"eor"}}

\* Variant: the channel stays in progress after the dequeue.
StatusAfterDequeue_busy(run) == "DMA_IN_PROGRESS"
\* chan->status after the dequeue (lines 1581-1582)
StatusAfterDequeue(run) ==
    IF run = <<>> THEN "DMA_COMPLETE" ELSE "DMA_IN_PROGRESS"

\* Lines 1545-1591: the non-cyclic completion under the lock.
TaskletDequeue(c, Ways) ==
    /\ ~oops
    /\ tasklet[c].pc = "checked"
    /\ chan[c].cyclic_first = NoDesc
    /\ \E curr \in HwPositions(desc[c], chan[c].dir,
                               FirstEndIrq(desc[c], chain_running[c]),
                               Ways) :
        LET d == desc[c]
            fe == FirstEndIrq(d, chain_running[c])
            res == IF fe = NoDesc THEN chan[c].bytes_residue
                   ELSE mmp_pdma_residue(chan[c], d, chain_running[c],
                                         d[fe].cookie, curr)
            m == MoveCompleted(d, chain_running[c], <<>>)
            d1 == IF m.done = NoDesc THEN d
                  ELSE [d EXCEPT ![m.done].cookie = 0]
            e0 == [EngineOf(c) EXCEPT
                      !.ch.bytes_residue = res,
                      !.ch.completed_cookie =
                          IF m.done = NoDesc THEN @ ELSE d[m.done].cookie,
                      !.run = m.run,
                      !.ch.status = StatusAfterDequeue(m.run)]
            r == start_pending_queue(c, e0, d1)
            e1 == IF r.ret # 0
                  THEN [r.e EXCEPT !.ch = mmp_pdma_qos_put(@)]
                  ELSE r.e
        IN /\ SetEngine(c, e1)
           /\ desc' = [desc EXCEPT ![c] = d1]
           /\ tasklet' = [tasklet EXCEPT
                             ![c].cleanup = m.cleanup,
                             ![c].pc = IF m.cleanup = <<>> THEN "idle"
                                       ELSE "cleanup"]
    /\ last' = NoCall
    /\ UNCHANGED <<alloc, prepared, cbLog, tokenLog, signals, oops>>

\* Lines 1594-1604, one descriptor: list_del, callback, dma_pool_free.
TaskletCallback(c) ==
    /\ ~oops
    /\ tasklet[c].pc = "cleanup"
    /\ LET s == Head(tasklet[c].cleanup)
           f == FreeSlots(desc[c], alloc[c], <<s>>)
       IN /\ cbLog' = [cbLog EXCEPT ![c] = Append(@, Invocation(c, s))]
          /\ desc' = [desc EXCEPT ![c] = f.desc]
          /\ alloc' = [alloc EXCEPT ![c] = f.alloc]
          /\ tasklet' = [tasklet EXCEPT
                            ![c].cleanup = Tail(@),
                            ![c].pc = IF Tail(tasklet[c].cleanup) = <<>>
                                      THEN "idle" ELSE "cleanup"]
    /\ last' = NoCall
    /\ UNCHANGED <<chan, prepared, chain_pending, chain_running, phy, hw,
                   drcmr_reg, tokenLog, signals, oops>>

(***************************************************************************)
(* mmp_pdma_tx_status.  The live address register is an input: the client  *)
(* reads while the hardware works through the transfer at the head of the  *)
(* running list.  A position is a number 0 .. 3n - 1 for a transfer of n   *)
(* descriptors: 3(k - 1) + w is the start (w = 0), the middle (w = 1) or   *)
(* the end (w = 2) of the k-th descriptor.                                 *)
(***************************************************************************)
\* The descriptors of run up to and including the first with ENDIRQEN
RECURSIVE HeadTransfer(_, _)
HeadTransfer(d, run) ==
    IF run = <<>> THEN <<>>
    ELSE IF "ENDIRQEN" \in d[Head(run)].dcmd THEN <<Head(run)>>
    ELSE <<Head(run)>> \o HeadTransfer(d, Tail(run))

NoPos == 0 - 1

\* The position at which the hardware has moved all of the transfer
EndPos(d, run) == 3 * Len(HeadTransfer(d, run)) - 1

\* The positions the hardware of channel c can be at: none without a
\* physical channel, the end once the hardware has stopped or raised the
\* end interrupt, any position while it runs.
StatusPositions(c) ==
    IF chan[c].phy = NoPhy \/ chain_running[c] = <<>> THEN {NoPos}
    ELSE IF ~hw[chan[c].phy].run \/ hw[chan[c].phy].dint
    THEN {EndPos(desc[c], chain_running[c])}
    ELSE 0 .. EndPos(desc[c], chain_running[c])

\* DTADR (chan->dir == DMA_DEV_TO_MEM) or DSADR of the hardware at
\* position i of the transfer at the head of run; an address the
\* descriptor does not increment stays at its start.
LiveAddress(d, run, dir, i) ==
    IF i = NoPos THEN 0
    ELSE
    LET sw == d[HeadTransfer(d, run)[(i \div 3) + 1]]
        moved == IF i % 3 = 0 THEN 0
                 ELSE IF i % 3 = 1 THEN sw.len \div 2
                 ELSE sw.len
    IN IF dir = "DMA_DEV_TO_MEM"
       THEN sw.dtadr + (IF "INCTRGADDR" \in sw.dcmd THEN moved ELSE 0)
       ELSE sw.dsadr + (IF "INCSRCADDR" \in sw.dcmd THEN moved ELSE 0)

\* dma_async_is_complete of the dmaengine core
dma_async_is_complete(cookie, last_complete, last_used) ==
    IF last_complete <= last_used
    THEN IF cookie <= last_complete \/ cookie > last_used
         THEN "DMA_COMPLETE" ELSE "DMA_IN_PROGRESS"
    ELSE IF cookie <= last_complete /\ cookie > last_used
         THEN "DMA_COMPLETE" ELSE "DMA_IN_PROGRESS"

\* dma_cookie_status of the dmaengine core, on a channel record
dma_cookie_status(ch, cookie) ==
    dma_async_is_complete(cookie, ch.completed_cookie, ch.cookie)

\* The value mmp_pdma_tx_status returns (lines 1485-1488)
StatusReturned(ch, cookie) ==
    IF dma_cookie_status(ch, cookie) = "DMA_COMPLETE" THEN "DMA_COMPLETE"
    ELSE ch.status

\* mmp_pdma_tx_status: dma_set_residue(txstate, mmp_pdma_residue(chan,
\* cookie)); nothing of the channel changes.  last keeps the cookie asked
\* about, the position of the hardware, the residue reported and, as why,
\* the status returned; two calls in a row see the hardware move forward.
TxStatus(c, Cookies) ==
    /\ ~oops
    /\ \E cookie \in Cookies \cap (1 .. chan[c].cookie),
          i \in StatusPositions(c) :
        /\ (last.op = "tx_status" /\ last.c = c) => i >= last.arg.pos
        /\ last' = Call("tx_status", c, [cookie |-> cookie, pos |-> i],
                        mmp_pdma_residue(chan[c], desc[c], chain_running[c],
                                         cookie,
                                         LiveAddress(desc[c],
                                                     chain_running[c],
                                                     chan[c].dir, i)),
                        StatusReturned(chan[c], cookie))
    /\ UNCHANGED <<chan, desc, alloc, prepared, chain_pending, chain_running,
                   phy, hw, drcmr_reg, tasklet, cbLog, tokenLog, signals,
                   oops>>

(***************************************************************************)
(* Inputs                                                                  *)
(***************************************************************************)
\* Bus addresses of client buffers and of a device FIFO
\* The i-th buffer the clients map for DMA, and the data register of the
\* peripheral.
Buf(i) == 65536 * i
DevFifo == Buf(8)

UartConfig ==
    [src_addr |-> DevFifo, dst_addr |-> DevFifo, src_addr_width |-> 1,
     dst_addr_width |-> 1, src_maxburst |-> 8, dst_maxburst |-> 8]

Seg(addr, len) == [addr |-> addr, len |-> len]
Req(len, period_len) == [len |-> len, period_len |-> period_len]

(***************************************************************************)
(* Spec: one client drives logical channel 1 through every operation,      *)
(* with chains of one and two descriptors.                                 *)
(***************************************************************************)
Clients == {1}

Next ==
    \/ \E c \in Clients :
        \/ AllocChanResources(c)
        \/ PrepMemcpy(c, {100, 8192}, {Buf(1)}, {Buf(2)}, {0})
        \/ PrepCyclic(c, {Req(2048, 1024)}, {Buf(1)}, {"DMA_MEM_TO_DEV"}, {0})
        \/ TxSubmit(c)
        \/ IssuePending(c)
        \/ PauseChan(c, {TRUE})
        \/ TerminateAll(c, {TRUE})
        \/ TaskletCheck(c)
        \/ TaskletCyclicTest(c)
        \/ TaskletCyclicGet(c)
        \/ TaskletCyclicCb(c)
        \/ TaskletDequeue(c, {"end", "eor"})
        \/ TaskletCallback(c)
    \/ \E p \in Phys :
        \/ HwEndIntr(p)
        \/ ChanHandler(p)

Spec == Init /\ [][Next]_vars

(***************************************************************************)
(* SpecOrder: the client of channel 1 builds and submits one-descriptor    *)
(* copies and one-period rings one after the other and lets them run; it   *)
(* neither pauses nor terminates.                                          *)
(***************************************************************************)
NextOrder ==
    \/ \E c \in Clients :
        \/ AllocChanResources(c)
        \/ PrepMemcpy(c, {100}, {Buf(1)}, {Buf(2)}, {0})
        \/ PrepCyclic(c, {Req(1024, 1024)}, {Buf(1)}, {"DMA_MEM_TO_DEV"}, {0})
        \/ TxSubmit(c)
        \/ IssuePending(c)
        \/ TaskletCheck(c)
        \/ TaskletCyclicTest(c)
        \/ TaskletCyclicGet(c)
        \/ TaskletCyclicCb(c)
        \/ TaskletDequeue(c, {"end", "eor"})
        \/ TaskletCallback(c)
    \/ \E p \in Phys :
        \/ HwEndIntr(p)
        \/ ChanHandler(p)

SpecOrder == Init /\ [][NextOrder]_vars

(***************************************************************************)
(* SpecBuild: a client of logical channel 2 calls the three builders with  *)
(* the lengths, scatter lists and ring geometries below, the pool failing  *)
(* at the failAt-th allocation of a call (0: only when it is empty).       *)
(* Releasing the channel's resources empties the pool.                     *)
(***************************************************************************)
Builders == {2}

MemcpyLens ==
    {0, PDMA_MAX_DESC_BYTES, PDMA_MAX_DESC_BYTES + 1, 20000}

SgLists ==
    {<<>>,
     <<Seg(Buf(1), 100)>>,
     <<Seg(Buf(1), 100), Seg(Buf(2), 200)>>,
     <<Seg(Buf(1), PDMA_MAX_DESC_BYTES + 1), Seg(Buf(2), 100)>>}

CyclicReqs ==
    {Req(4096, 1024), Req(2048, 1024), Req(0, 1024), Req(3000, 1024),
     Req(2 * (PDMA_MAX_DESC_BYTES + 1), PDMA_MAX_DESC_BYTES + 1)}

SlaveDirs == {"DMA_MEM_TO_DEV", "DMA_DEV_TO_MEM"}

FailPoints == 0 .. MaxPool

\* The client asks for another chain only while the chains it holds have
\* at most MaxHeld descriptors.
MayBuild(c) == Cardinality(alloc[c]) <= MaxHeld

NextBuild ==
    \E c \in Builders :
        \/ AllocChanResources(c)
        \/ FreeChanResources(c)
        \/ Config(c, {UartConfig})
        \/ MayBuild(c)
            /\ PrepMemcpy(c, MemcpyLens, {Buf(1)}, {Buf(2)}, FailPoints)
        \/ MayBuild(c)
            /\ PrepSlaveSg(c, SgLists, SlaveDirs, FailPoints)
        \/ MayBuild(c)
            /\ PrepCyclic(c, CyclicReqs, {Buf(1)}, SlaveDirs, FailPoints)

SpecBuild == Init /\ [][NextBuild]_vars

(***************************************************************************)
(* SpecPhy: the physical channel registry of a device that has 1 to 32     *)
(* physical channels and as many logical channels.  Logical channel c asks *)
(* for request line DrcmrOf(c); in half of the devices channel 3 asks for  *)
(* the line of channel 2, the reserved one.  The channels without          *)
(* reservation ask for a physical channel in the order of their numbers    *)
(* and at most one of them at a time has given its channel back.           *)
(***************************************************************************)
\* pdev->dma_channels of the device whose phy table is ph
dma_channels(ph) == Cardinality(DOMAIN ph)

\* The fields of a logical channel the registry reads and writes
RegChan(drcmr) == [phy |-> NoPhy, drcmr |-> drcmr]

InitPhy ==
    /\ \E n \in 1 .. MaxDmaChannels, twin \in BOOLEAN :
        /\ phy = [p \in 0 .. n - 1 |-> [vchan |-> NoChan]]
        /\ chan = [c \in 1 .. n |->
                      RegChan(IF twin /\ c = 3 THEN DrcmrOf(2)
                              ELSE DrcmrOf(c))]
        /\ drcmr_reg = [r \in {DrcmrOf(c) : c \in 1 .. n} |-> NoPhy]
    /\ InitEngine

\* The request line of channel c has a reservation.
HasLine(c) == lookup_phy_for_drcmr(chan[c].drcmr) # NoPhy

\* The channels without reservation that hold no physical channel, and
\* those that hold one
Waiting == {b \in DOMAIN chan : ~HasLine(b) /\ chan[b].phy = NoPhy}
Holding == {a \in DOMAIN chan : ~HasLine(a) /\ chan[a].phy # NoPhy}

\* The channels that ask next: those with a reservation, and the first of
\* those without that holds no physical channel.
Askers ==
    {c \in DOMAIN chan : HasLine(c)}
    \cup {b \in Waiting : \A a \in Waiting : b <= a}

\* A channel gives its physical channel back while no channel without
\* reservation below a holder is waiting for one.
MayFree == \A b \in Waiting : \A a \in Holding : a < b

\* "if (!chan->phy) chan->phy = lookup_phy(chan)" of start_pending_queue
LookupPhy(c) ==
    /\ chan[c].phy = NoPhy
    /\ LET p == lookup_phy(phy, dma_channels(phy), chan[c].drcmr) IN
       /\ phy' = IF p = NoPhy THEN phy ELSE [phy EXCEPT ![p].vchan = c]
       /\ chan' = [chan EXCEPT ![c].phy = p]
       /\ last' = Call("lookup_phy", c, [drcmr |-> chan[c].drcmr], p,
                       IF p = NoPhy THEN "none" ELSE "ok")
    /\ UNCHANGED <<desc, alloc, prepared, chain_pending, chain_running, hw,
                   drcmr_reg, tasklet, cbLog, tokenLog, signals, oops>>

\* mmp_pdma_free_phy of a channel that holds a physical channel
FreePhy(c) ==
    /\ chan[c].phy # NoPhy
    /\ LET e == mmp_pdma_free_phy(c, [ch |-> chan[c], phy |-> phy,
                                     drcmr_reg |-> drcmr_reg])
       IN /\ chan' = [chan EXCEPT ![c] = e.ch]
          /\ phy' = e.phy
          /\ drcmr_reg' = e.drcmr_reg
    /\ last' = NoCall
    /\ UNCHANGED <<desc, alloc, prepared, chain_pending, chain_running, hw,
                   tasklet, cbLog, tokenLog, signals, oops>>

NextPhy ==
    \/ \E c \in Askers : LookupPhy(c)
    \/ MayFree /\ \E c \in DOMAIN chan : FreePhy(c)

SpecPhy == InitPhy /\ [][NextPhy]_vars

(***************************************************************************)
(* SpecRace: the logical channels of a small device take and give back     *)
(* physical channels concurrently.  lookup_phy runs under phy_lock as a    *)
(* whole; its caller stores the result afterwards.  mmp_pdma_free_phy      *)
(* clears the DRCMR register first and the two pointers under phy_lock.    *)
(* pc is the place a channel's thread is at, found the pointer lookup_phy  *)
(* returned to it.  Channel 2 asks for the reserved line or, in the other  *)
(* half of the devices, for one without reservation.                       *)
(***************************************************************************)
RaceChan(drcmr) ==
    [phy |-> NoPhy, drcmr |-> drcmr, pc |-> "idle", found |-> NoPhy]

InitRace ==
    /\ \E n \in 1 .. DmaChannels + 1, resv \in BOOLEAN :
        /\ phy = [p \in 0 .. n - 1 |-> [vchan |-> NoChan]]
        /\ chan = [c \in 1 .. n |->
                      RaceChan(IF c = 2 /\ ~resv THEN DrcmrOf(n + 1)
                               ELSE DrcmrOf(c))]
        /\ drcmr_reg = [r \in {DrcmrOf(c) : c \in 1 .. n + 1} |-> NoPhy]
    /\ InitEngine

\* lookup_phy, lines 730-761, called at line 808
RaceLookup(c) ==
    /\ chan[c].pc = "idle"
    /\ chan[c].phy = NoPhy
    /\ LET p == lookup_phy(phy, dma_channels(phy), chan[c].drcmr) IN
       /\ phy' = IF p = NoPhy THEN phy ELSE [phy EXCEPT ![p].vchan = c]
       /\ chan' = [chan EXCEPT ![c].found = p, ![c].pc = "assign"]
    /\ last' = NoCall
    /\ UNCHANGED <<desc, alloc, prepared, chain_pending, chain_running, hw,
                   drcmr_reg, tasklet, cbLog, tokenLog, signals, oops>>

\* chan->phy = <the pointer lookup_phy returned>, line 808
RaceAssign(c) ==
    /\ chan[c].pc = "assign"
    /\ chan' = [chan EXCEPT ![c].phy = chan[c].found,
                            ![c].found = NoPhy, ![c].pc = "idle"]
    /\ last' = NoCall
    /\ UNCHANGED <<desc, alloc, prepared, chain_pending, chain_running, phy,
                   hw, drcmr_reg, tasklet, cbLog, tokenLog, signals, oops>>

\* mmp_pdma_free_phy, lines 770-775: the test of pchan->phy and the write
\* to DRCMR
RaceUnmap(c) ==
    /\ chan[c].pc = "idle"
    /\ chan[c].phy # NoPhy
    /\ LET e == mmp_pdma_free_phy(c, [ch |-> chan[c], phy |-> phy,
                                     drcmr_reg |-> drcmr_reg])
       IN drcmr_reg' = e.drcmr_reg
    /\ chan' = [chan EXCEPT ![c].pc = "unbind"]
    /\ last' = NoCall
    /\ UNCHANGED <<desc, alloc, prepared, chain_pending, chain_running, phy,
                   hw, tasklet, cbLog, tokenLog, signals, oops>>

\* mmp_pdma_free_phy, lines 777-781: the two pointers, under phy_lock
RaceUnbind(c) ==
    /\ chan[c].pc = "unbind"
    /\ LET e == mmp_pdma_free_phy(c, [ch |-> chan[c], phy |-> phy,
                                     drcmr_reg |-> drcmr_reg])
       IN /\ phy' = e.phy
          /\ chan' = [chan EXCEPT ![c] = [e.ch EXCEPT !.pc = "idle"]]
    /\ last' = NoCall
    /\ UNCHANGED <<desc, alloc, prepared, chain_pending, chain_running, hw,
                   drcmr_reg, tasklet, cbLog, tokenLog, signals, oops>>

NextRace ==
    \E c \in DOMAIN chan :
        \/ RaceLookup(c)
        \/ RaceAssign(c)
        \/ RaceUnmap(c)
        \/ RaceUnbind(c)

SpecRace == InitRace /\ [][NextRace]_vars

(***************************************************************************)
(* SpecWait: the clients of logical channels 1 and 2 both ask for request  *)
(* lines without reservation, so that they compete for the one physical    *)
(* channel outside the reservation table.  They build one-descriptor       *)
(* copies while they hold at most MaxHeld descriptors, submit, issue and   *)
(* terminate; the stop poll of disable_chan may run out.  No transfer      *)
(* completes.                                                              *)
(***************************************************************************)
InitWait ==
    /\ chan = [c \in Chans |->
                 IF c = 1 THEN InitChan(c)
                 ELSE [InitChan(c) EXCEPT !.drcmr = SpareLine]]
    /\ phy = [p \in Phys |-> [vchan |-> NoChan]]
    /\ drcmr_reg = [r \in Drcmrs |-> NoPhy]
    /\ InitEngine

NextWait ==
    \E c \in Chans :
        \/ AllocChanResources(c)
        \/ MayBuild(c) /\ PrepMemcpy(c, {100}, {Buf(1)}, {Buf(2)}, {0})
        \/ TxSubmit(c)
        \/ IssuePending(c)
        \/ TerminateAll(c, BOOLEAN)

SpecWait == InitWait /\ [][NextWait]_vars

(***************************************************************************)
(* SpecResidue: the client of channel 1 configures the channel, builds     *)
(* memory-to-device transfers of two scatterlist entries, submits and      *)
(* issues them and asks for their status while the hardware moves them to  *)
(* the end; every transfer ends by moving its last byte.                   *)
(***************************************************************************)
\* Two pages in ascending order, and two adjacent pages in descending
\* order
ResidueSgLists ==
    {<<Seg(Buf(1), 100), Seg(Buf(2), 100)>>,
     <<Seg(Buf(1) + 100, 100), Seg(Buf(1), 100)>>}

NextResidue ==
    \/ \E c \in Clients :
        \/ AllocChanResources(c)
        \/ Config(c, {UartConfig})
        \/ MayBuild(c)
            /\ PrepSlaveSg(c, ResidueSgLists, {"DMA_MEM_TO_DEV"}, {0})
        \/ TxSubmit(c)
        \/ IssuePending(c)
        \/ TxStatus(c, 1 .. MaxCookie)
        \/ TaskletCheck(c)
        \/ TaskletDequeue(c, {"end"})
        \/ TaskletCallback(c)
    \/ \E p \in Phys :
        \/ HwEndIntr(p)
        \/ ChanHandler(p)

SpecResidue == Init /\ [][NextResidue]_vars

(***************************************************************************)
(* SpecLife: the client of channel 1 allocates the channel's resources,    *)
(* builds one-descriptor copies while it holds at most MaxHeld             *)
(* descriptors, submits and issues them, and frees the resources at any    *)
(* time; no transfer completes.                                            *)
(***************************************************************************)
NextLife ==
    \E c \in Clients :
        \/ AllocChanResources(c)
        \/ MayBuild(c) /\ PrepMemcpy(c, {100}, {Buf(1)}, {Buf(2)}, {0})
        \/ TxSubmit(c)
        \/ IssuePending(c)
        \/ FreeChanResources(c)

SpecLife == Init /\ [][NextLife]_vars

(***************************************************************************)
(* SpecLive: the client of channel 1 builds, submits and issues            *)
(* one-descriptor copies and neither pauses nor terminates.  The hardware  *)
(* ends every chain it is started on, the interrupt is served, and the     *)
(* tasklet, once scheduled, runs to its end: these steps are weakly fair.  *)
(* The client owes no step.                                                *)
(***************************************************************************)
NextLive ==
    \/ \E c \in Clients :
        \/ AllocChanResources(c)
        \/ MayBuild(c) /\ PrepMemcpy(c, {100}, {Buf(1)}, {Buf(2)}, {0})
        \/ TxSubmit(c)
        \/ IssuePending(c)
        \/ TaskletCheck(c)
        \/ TaskletDequeue(c, {"end"})
        \/ TaskletCallback(c)
    \/ \E p \in Phys :
        \/ HwEndIntr(p)
        \/ ChanHandler(p)

FairLive ==
    /\ \A p \in Phys : WF_vars(HwEndIntr(p)) /\ WF_vars(ChanHandler(p))
    /\ \A c \in Clients :
          /\ WF_vars(TaskletCheck(c))
          /\ WF_vars(TaskletDequeue(c, {"end"}))
          /\ WF_vars(TaskletCallback(c))

SpecLive == Init /\ [][NextLive]_vars /\ FairLive

(***************************************************************************)
(* SpecPoll: disable_chan on a physical channel, one round of its poll     *)
(* loop per step, with hardware that reaches the stop state at any time or *)
(* never.  last holds the frame of the call: the physical channel, cnt,    *)
(* the number of reads of DCSR made and the stop-state bit of the last     *)
(* read; why is "polling" until the function returns.  hw[p].run is the    *)
(* complement of the stop-state bit of channel p.                          *)
(***************************************************************************)
\* u32 cnt = 1000 (line 595)
PollRounds == 1000

\* The loop condition of line 612, on the bit read last and on cnt before
\* its decrement
PollAgain(stopstate, cnt) == ~stopstate /\ cnt - 1 # 0

\* cnt when the loop is left: --cnt is evaluated only with the bit clear
CntAtExit(stopstate, cnt) == IF stopstate THEN cnt ELSE cnt - 1

\* Variant: the function never warns.
PollWarns_never(cnt) == FALSE
\* WARN_ON(!cnt) (line 617)
PollWarns(cnt) == cnt = 0

\* A disable_chan call is between its first read of DCSR and its return.
Polling == last.op = "disable_chan" /\ last.why = "polling"

\* enable_chan: a transfer is started on physical channel p.
PollEnable(p) ==
    /\ ~Polling
    /\ ~hw[p].run
    /\ hw' = [hw EXCEPT ![p].run = TRUE]
    /\ last' = NoCall
    /\ UNCHANGED <<chan, desc, alloc, prepared, chain_pending, chain_running,
                   phy, drcmr_reg, tasklet, cbLog, tokenLog, signals, oops>>

\* The hardware of channel p reaches the stop state.
HwStops(p) ==
    /\ hw[p].run
    /\ hw' = [hw EXCEPT ![p].run = FALSE]
    /\ UNCHANGED <<chan, desc, alloc, prepared, chain_pending, chain_running,
                   phy, drcmr_reg, tasklet, cbLog, tokenLog, signals, oops,
                   last>>

\* disable_chan up to the first read of DCSR (lines 592-611); with a NULL
\* phy it returns at once.
DisableStart(p) ==
    /\ ~Polling
    /\ last' = IF p = NoPhy
               THEN Call("disable_chan", NoChan,
                         [phy |-> p, cnt |-> PollRounds, reads |-> 0,
                          stopstate |-> FALSE], <<>>, "nophy")
               ELSE Call("disable_chan", NoChan,
                         [phy |-> p, cnt |-> PollRounds, reads |-> 1,
                          stopstate |-> ~hw[p].run], <<>>, "polling")
    /\ UNCHANGED <<chan, desc, alloc, prepared, chain_pending, chain_running,
                   phy, hw, drcmr_reg, tasklet, cbLog, tokenLog, signals,
                   oops>>

\* One test of the loop condition (line 612), followed by the loop body
\* (lines 613-614) or by the WARN_ON and the return (lines 617-618)
DisablePoll ==
    /\ Polling
    /\ LET a == last.arg IN
       IF PollAgain(a.stopstate, a.cnt)
       THEN last' = [last EXCEPT !.arg.cnt = a.cnt - 1,
                                 !.arg.reads = a.reads + 1,
                                 !.arg.stopstate = ~hw[a.phy].run]
       ELSE LET cnt == CntAtExit(a.stopstate, a.cnt) IN
            last' = [last EXCEPT !.arg.cnt = cnt,
                                 !.why = IF PollWarns(cnt) THEN "warned"
                                         ELSE "stopped"]
    /\ UNCHANGED <<chan, desc, alloc, prepared, chain_pending, chain_running,
                   phy, hw, drcmr_reg, tasklet, cbLog, tokenLog, signals,
                   oops>>

NextPoll ==
    \/ \E p \in Phys : PollEnable(p) \/ HwStops(p)
    \/ \E p \in Phys \cup {NoPhy} : DisableStart(p)
    \/ DisablePoll

\* The processor that runs disable_chan keeps running it; nothing is
\* assumed of the hardware.
FairPoll == WF_vars(DisablePoll)

SpecPoll == Init /\ [][NextPoll]_vars /\ FairPoll

(***************************************************************************)
(* SpecCancel: the client of channel 1 builds one-descriptor copies,       *)
(* submits and issues them and cancels them with terminate_all, whose poll *)
(* sees the hardware stop, while the end interrupts of the hardware and    *)
(* the steps of the tasklet go on.  No ring is built and the channel is    *)
(* never paused.                                                           *)
(***************************************************************************)
NextCancel ==
    \/ \E c \in Clients :
        \/ AllocChanResources(c)
        \/ MayBuild(c) /\ PrepMemcpy(c, {100}, {Buf(1)}, {Buf(2)}, {0})
        \/ TxSubmit(c)
        \/ IssuePending(c)
        \/ TerminateAll(c, {TRUE})
        \/ TaskletCheck(c)
        \/ TaskletDequeue(c, {"end"})
        \/ TaskletCallback(c)
    \/ \E p \in Phys :
        \/ HwEndIntr(p)
        \/ ChanHandler(p)

SpecCancel == Init /\ [][NextCancel]_vars

(***************************************************************************)
(* SpecDir: a client of logical channel 2 configures the channel and calls *)
(* prep_slave_sg with every transfer direction of the dmaengine interface, *)
(* and prep_memcpy, the pool never failing; releasing the channel's        *)
(* resources empties the pool.                                             *)
(***************************************************************************)
DirSgLists ==
    {<<Seg(Buf(1), 100)>>, <<Seg(Buf(1), 100), Seg(Buf(2), 100)>>}

NextDir ==
    \E c \in Builders :
        \/ AllocChanResources(c)
        \/ FreeChanResources(c)
        \/ Config(c, {UartConfig})
        \/ MayBuild(c)
            /\ PrepMemcpy(c, {100, PDMA_MAX_DESC_BYTES + 1}, {Buf(1)},
                          {Buf(2)}, {0})
        \/ MayBuild(c) /\ PrepSlaveSg(c, DirSgLists, DmaDirs, {0})

SpecDir == Init /\ [][NextDir]_vars





(***************************************************************************)
(* Properties of the chain builders, checked under SpecBuild.  last is     *)
(* the call just made; desc holds what it wrote.                           *)
(***************************************************************************)
RECURSIVE SumSeq(_)
SumSeq(q) == IF q = <<>> THEN 0 ELSE Head(q) + SumSeq(Tail(q))

CeilDiv(a, b) == (a + b - 1) \div b

\* The length fields of the descriptors of chain ret of channel c
ChainLens(c, ret) == [i \in 1 .. Len(ret) |-> desc[c][ret[i]].len]

\* The memory-side address of descriptor s in a transfer of direction dir
MemSide(c, s, dir) ==
    IF dir = "DMA_DEV_TO_MEM" THEN desc[c][s].dtadr ELSE desc[c][s].dsadr

\* The flat-copy splitting rule applied to [addr, addr + len)
RECURSIVE SplitOf(_, _)
SplitOf(addr, len) ==
    IF len = 0 THEN <<>>
    ELSE LET n == Min(len, PDMA_MAX_DESC_BYTES) IN
         <<[addr |-> addr, len |-> n]>> \o SplitOf(addr + n, len - n)

RECURSIVE SplitAll(_)
SplitAll(sgl) ==
    IF sgl = <<>> THEN <<>>
    ELSE SplitOf(Head(sgl).addr, Head(sgl).len) \o SplitAll(Tail(sgl))

MemcpyDirs == {"DMA_MEM_TO_MEM", "DMA_MEM_TO_DEV", "DMA_DEV_TO_MEM"}

\* C1: prepare_copy of a length > 0, on a channel whose direction is one
\* the copy builder serves and whose pool does not run out, returns a chain
\* of exactly ceil(length / 8191) descriptors, each length field at most
\* 8191, summing to length; 20000 bytes give 8191, 8191, 3618 in chain
\* order.
C1_MemcpySplit ==
    (/\ last.op = "prep_memcpy"
     /\ last.arg.len > 0
     /\ last.arg.dir \in MemcpyDirs
     /\ last.why # "nomem")
    => LET lens == ChainLens(last.c, last.ret) IN
       /\ last.why = "ok"
       /\ Len(last.ret) = CeilDiv(last.arg.len, PDMA_MAX_DESC_BYTES)
       /\ \A i \in 1 .. Len(lens) : lens[i] <= PDMA_MAX_DESC_BYTES
       /\ SumSeq(lens) = last.arg.len
       /\ last.arg.len = 20000 => lens = <<8191, 8191, 3618>>

C1_Witness ==
    /\ last.op = "prep_memcpy"
    /\ last.arg.len = 20000
    /\ last.why = "ok"
    /\ Len(last.ret) = 3

\* C2: prepare_sg splits every segment (addr_i, len_i) by the flat-copy
\* rule: the chain is, in segment order, the descriptors that rule gives
\* for each segment, starting at memory-side address addr_i, with lengths
\* of at most 8191 that sum to len_i, also when the segments' lengths
\* differ.
C2_SgSplit ==
    (last.op = "prep_slave_sg" /\ last.why = "ok")
    => LET want == SplitAll(last.arg.sgl) IN
       /\ Len(last.ret) = Len(want)
       /\ \A i \in 1 .. Len(want) :
             i <= Len(last.ret) =>
                /\ desc[last.c][last.ret[i]].len = want[i].len
                /\ MemSide(last.c, last.ret[i], last.arg.dir) = want[i].addr

\* C3: a prepare_cyclic request with total_length > 0, total_length a
\* multiple of period_length and period_length <= 8191, the pool not
\* running out, gives a chain of exactly total_length / period_length
\* descriptors, each of length period_length and carrying ENDIRQEN, each
\* non-last descriptor pointing at its successor and the last one at the
\* first, so that none carries the stop marker.
C3_CyclicRing ==
    (/\ last.op = "prep_dma_cyclic"
     /\ last.arg.len > 0
     /\ last.arg.period_len > 0
     /\ last.arg.len % last.arg.period_len = 0
     /\ last.arg.period_len <= PDMA_MAX_DESC_BYTES
     /\ last.arg.dir \in SlaveDirs
     /\ last.why # "nomem")
    => LET c == last.c
           ring == last.ret
           n == Len(ring) IN
       /\ last.why = "ok"
       /\ n = last.arg.len \div last.arg.period_len
       /\ \A i \in 1 .. n :
             /\ desc[c][ring[i]].len = last.arg.period_len
             /\ "ENDIRQEN" \in desc[c][ring[i]].dcmd
             /\ desc[c][ring[i]].ddadr =
                    PhysOf(c, ring[IF i = n THEN 1 ELSE i + 1])
             /\ desc[c][ring[i]].ddadr % 2 # DDADR_STOP

C3_Witness ==
    /\ last.op = "prep_dma_cyclic"
    /\ last.arg.len = 4096 /\ last.arg.period_len = 1024
    /\ Len(last.ret) = 4
    /\ chan[last.c].cyclic_first = last.ret[1]

\* What a rejected builder call must leave alone: the pool, the channel's
\* fields and queues, and the hardware registers.
BuilderTouchesNothing ==
    UNCHANGED <<chan, desc, alloc, prepared, chain_pending, chain_running,
                phy, hw, drcmr_reg>>

\* C4: prepare_cyclic fails when total_length is not a multiple of
\* period_length and when period_length > 8191, and then allocates no
\* descriptor, touches no hardware register and changes no field of the
\* logical channel.
C4_CyclicBadArgs ==
    [][(/\ last'.op = "prep_dma_cyclic"
        /\ last'.arg.period_len > 0
        /\ \/ last'.arg.len % last'.arg.period_len # 0
           \/ last'.arg.period_len > PDMA_MAX_DESC_BYTES)
       => (last'.ret = <<>> /\ BuilderTouchesNothing)]_vars

C4_Witness ==
    /\ last.op = "prep_dma_cyclic"
    /\ last.arg.period_len > PDMA_MAX_DESC_BYTES
    /\ last.arg.len % last.arg.period_len = 0
    /\ last.ret = <<>>
    /\ alloc[last.c] # {}
    /\ chan[last.c].dir # last.arg.dir

\* C5: prepare_copy with length 0 fails, allocates no descriptor and leaves
\* the channel's queues, status, physical binding and cyclic_first as they
\* were.
C5_MemcpyZero ==
    [][(last'.op = "prep_memcpy" /\ last'.arg.len = 0)
       => (last'.ret = <<>> /\ BuilderTouchesNothing)]_vars

C5_Witness ==
    /\ last.op = "prep_memcpy"
    /\ last.arg.len = 0
    /\ last.ret = <<>>
    /\ chan[last.c].cyclic_first # NoDesc

\* C6: when the pool fails to supply the k-th descriptor of a chain, each
\* of the three builders fails and has freed every descriptor it allocated
\* in that call: the pool's outstanding descriptors are the ones it had
\* before, and no queue has gained a descriptor.
C6_AllocFailUnwinds ==
    [][(last'.op \in {"prep_memcpy", "prep_slave_sg", "prep_dma_cyclic"}
        /\ last'.why = "nomem")
       => (/\ last'.ret = <<>>
           /\ alloc' = alloc
           /\ UNCHANGED <<prepared, chain_pending, chain_running>>)]_vars

C6_Witness ==
    /\ last.op = "prep_memcpy"
    /\ last.arg.len = 20000
    /\ last.arg.failAt = 3
    /\ last.why = "nomem"
    /\ Cardinality(alloc[last.c]) = 1

(***************************************************************************)
(* Properties of submission and completion, checked under Spec and         *)
(* SpecOrder.                                                              *)
(***************************************************************************)
Range(q) == {q[i] : i \in 1 .. Len(q)}

\* The descriptors of channel c that are on one of its two queues
Queued(c) == Range(chain_pending[c]) \cup Range(chain_running[c])

\* The invocations of client callbacks of submitted chains, in order
ClientCalls(c) == SelectSeq(cbLog[c], LAMBDA x : x.cb /\ x.tok > 0)

\* C7: on a logical channel the token of every submit is strictly greater
\* than that of the submit before, and client callbacks are invoked in the
\* order of submission: never one of a later chain before one of an
\* earlier chain, nor while an earlier chain is still queued.
C7_TokenAndCallbackOrder ==
    \A c \in Chans :
        /\ \A i \in 1 .. Len(tokenLog[c]) - 1 :
              tokenLog[c][i] < tokenLog[c][i + 1]
        /\ LET calls == ClientCalls(c) IN
           /\ \A i \in 1 .. Len(calls) - 1 : calls[i].tok <= calls[i + 1].tok
           /\ \A i \in 1 .. Len(calls) : \A s \in Queued(c) :
                 desc[c][s].tok > 0 => desc[c][s].tok >= calls[i].tok

\* C8: finishing a non-cyclic transfer of several descriptors, the tasklet
\* invokes the callback of each descriptor once, in chain order: the
\* first-built descriptor's before the ENDIRQEN descriptor's.
C8_CleanupInChainOrder ==
    \A c \in Chans : \A i, j \in 1 .. Len(cbLog[c]) :
        LET x == cbLog[c][i]
            y == cbLog[c][j] IN
        (x.tok > 0 /\ x.tok = y.tok /\ x.cb /\ ~x.endirq /\ i # j)
        => /\ x.slot # y.slot
           /\ y.endirq => i < j

\* The cyclic transfer of channel c is running and nothing else was ever
\* built or submitted on c; no interrupt or tasklet run is outstanding.
RingAlone(c) ==
    /\ chan[c].cyclic_first # NoDesc
    /\ chain_running[c] # <<>>
    /\ chan[c].cyclic_first = Head(chain_running[c])
    /\ Range(chain_running[c]) = alloc[c]
    /\ Len(tokenLog[c]) = 1
    /\ chan[c].status = "DMA_IN_PROGRESS"

Quiet(c) ==
    /\ ~tasklet[c].sched /\ tasklet[c].pc = "idle"
    /\ chan[c].phy # NoPhy
    /\ ~hw[chan[c].phy].dint

\* C9: while a cyclic transfer runs, each end-of-chain signal of its
\* physical channel leads to exactly one invocation of the ring's
\* callback: once the interrupt and tasklet work is done, N signals have
\* given N invocations, also when a signal came before the tasklet
\* scheduled by the one before had run.
C9_OneCallbackPerSignal ==
    \A c \in Chans :
        (RingAlone(c) /\ Quiet(c)) => Len(cbLog[c]) = signals

\* A descriptor of a ring: it has ENDIRQEN and does not carry the stop
\* marker.
IsRingDesc(c, s) ==
    /\ s \in alloc[c]
    /\ "ENDIRQEN" \in desc[c][s].dcmd
    /\ desc[c][s].ddadr % 2 # DDADR_STOP

\* C10: once a cyclic transfer is active, no step other than terminate_all
\* or free_resources of its channel takes a descriptor of the ring off the
\* running queue or frees it, whatever signals arrive and whatever builder,
\* submit or issue_pending calls are made in between.
C10_RingStaysQueued ==
    [][\A c \in Chans : \A s \in Range(chain_running[c]) :
          IsRingDesc(c, s)
          => \/ TerminateAll(c, BOOLEAN)
             \/ FreeChanResources(c)
             \/ s \in Range(chain_running'[c]) /\ s \in alloc'[c]]_vars

(***************************************************************************)
(* Properties of the physical channel registry, checked under SpecPhy.     *)
(***************************************************************************)
\* The physical indices the reservation table gives request line drcmr
EntryOf(drcmr) ==
    {reserved_channels[i].chan_id :
        i \in {j \in 1 .. Len(reserved_channels) :
                  reserved_channels[j].drcmr = drcmr}}

\* The physical indices that appear in the reservation table
TableIndices ==
    {reserved_channels[i].chan_id : i \in 1 .. Len(reserved_channels)}

\* Logical channel c gets a physical channel in this step.
Binds(c) == chan[c].phy = NoPhy /\ chan'[c].phy # NoPhy

\* C11: a logical channel whose request line has a reservation entry is
\* bound only to the physical index of that entry, and only when that index
\* is unbound; a logical channel whose line has no entry is never bound to
\* an index of the reservation table.
C11_ReservedBinding ==
    [][\A c \in DOMAIN chan :
          Binds(c) =>
             IF EntryOf(chan[c].drcmr) # {}
             THEN /\ chan'[c].phy \in EntryOf(chan[c].drcmr)
                  /\ phy[chan'[c].phy].vchan = NoChan
             ELSE chan'[c].phy \notin TableIndices]_vars

\* A request on the reserved line was refused, its physical channel being
\* held, while physical channel 0 and those of every other band were free.
C11_Witness ==
    /\ last.op = "lookup_phy"
    /\ EntryOf(last.arg.drcmr) # {}
    /\ last.ret = NoPhy
    /\ \E c \in DOMAIN chan :
          /\ c # last.c
          /\ chan[c].phy \in EntryOf(chan[c].drcmr)
          /\ phy[chan[c].phy].vchan = c
    /\ dma_channels(phy) = MaxDmaChannels
    /\ \A p \in DOMAIN phy : p \notin TableIndices => phy[p].vchan = NoChan

\* The bands of section 4.2 and the order (band, index)
Band(i) == (i % 16) \div 4
Before(p, q) == Band(p) < Band(q) \/ (Band(p) = Band(q) /\ p <= q)

\* The physical channels of table ph that are unbound and not reserved
FreePool(ph) ==
    {p \in DOMAIN ph : ph[p].vchan = NoChan /\ p \notin TableIndices}

SearchOrder32 ==
    <<0, 1, 2, 3, 16, 17, 18, 19, 4, 5, 6, 7, 20, 21, 22, 23,
      8, 9, 10, 11, 24, 25, 26, 27, 12, 13, 14, 15, 28, 29, 30, 31>>

\* C12: for a request line without reservation, lookup_phy, when it binds,
\* binds the unbound non-reserved physical channel that is smallest in the
\* order (band, index), band = (index & 0xF) >> 2; with 32 channels that is
\* the first free one of 0-3, 16-19, 4-7, 20-23, 8-11, 24-27, 12-15, 28-31.
C12_BandOrder ==
    [][\A c \in DOMAIN chan :
          (Binds(c) /\ EntryOf(chan[c].drcmr) = {}) =>
             LET p == chan'[c].phy
                 free == FreePool(phy) IN
             /\ p \in free
             /\ \A q \in free : Before(p, q)
             /\ dma_channels(phy) = 32 =>
                   \E k \in 1 .. 32 :
                      /\ SearchOrder32[k] = p
                      /\ \A j \in 1 .. k - 1 :
                            SearchOrder32[j] \notin free]_vars

\* With 32 channels, 16 was bound while 4 was free.
C12_Witness ==
    /\ dma_channels(phy) = 32
    /\ last.op = "lookup_phy"
    /\ last.ret = 16
    /\ EntryOf(last.arg.drcmr) = {}
    /\ phy[4].vchan = NoChan
    /\ phy[3].vchan # NoChan

\* C13: for every number of physical channels from 1 to 32, lookup_phy for
\* a request line without reservation returns NULL only when every
\* non-reserved physical channel is bound.
C13_NoneOnlyWhenFull ==
    (/\ last.op = "lookup_phy"
     /\ EntryOf(last.arg.drcmr) = {}
     /\ last.ret = NoPhy)
    => FreePool(phy) = {}

\* The physical channels logical channel c holds: the one its phy pointer
\* names, the one lookup_phy has just handed to it, and those bound to it
\* in the phy table.
Holds(c) ==
    ({chan[c].phy, chan[c].found} \ {NoPhy})
    \cup {p \in DOMAIN phy : phy[p].vchan = c}

\* C15: under any interleaving of the acquisitions and releases of
\* different logical channels, no two logical channels hold the same
\* physical channel and no logical channel holds more than one.
C15_ExclusiveBinding ==
    \A c1 \in DOMAIN chan :
        /\ Cardinality(Holds(c1)) <= 1
        /\ \A c2 \in DOMAIN chan :
              c1 # c2 => Holds(c1) \cap Holds(c2) = {}

\* One channel has just been handed a physical channel while another is in
\* the middle of giving its own back and a third holds one.
C15_Witness ==
    \E c1, c2, c3 \in DOMAIN chan :
        /\ c1 # c2 /\ c1 # c3 /\ c2 # c3
        /\ chan[c1].pc = "assign" /\ chan[c1].found # NoPhy
        /\ chan[c2].pc = "unbind"
        /\ chan[c3].pc = "idle" /\ chan[c3].phy # NoPhy

(***************************************************************************)
(* Properties of the queue operations, checked under Spec                  *)
(***************************************************************************)
\* C14: in every reachable state, whatever prepare, submit, issue_pending,
\* pause, terminate_all and completion signals led to it, a logical channel
\* whose running queue is not empty has status DMA_IN_PROGRESS and is
\* bound to a physical channel.
C14_RunningMeansInProgress ==
    \A c \in DOMAIN chan :
        chain_running[c] # <<>>
        => /\ chan[c].status = "DMA_IN_PROGRESS"
           /\ chan[c].phy # NoPhy

\* The descriptors linked on a list
Linked(list) == {list[i] : i \in 1 .. Len(list)}

\* C16: when terminate_all returns on a logical channel, both of its
\* queues are empty, every descriptor that was in them is back in the pool,
\* no callback was invoked, the channel has no physical channel and the
\* one it held is unbound, the cached residue is 0 and the status is
\* DMA_COMPLETE.
C16_TerminateAll ==
    [][\A c \in DOMAIN chan :
          (last'.op = "terminate_all" /\ last'.c = c)
          => /\ chain_pending'[c] = <<>>
             /\ chain_running'[c] = <<>>
             /\ (Linked(chain_pending[c]) \cup Linked(chain_running[c]))
                    \cap alloc'[c] = {}
             /\ cbLog' = cbLog
             /\ chan'[c].phy = NoPhy
             /\ chan[c].phy # NoPhy => phy'[chan[c].phy].vchan = NoChan
             /\ \A p \in DOMAIN phy : phy'[p].vchan # c
             /\ chan'[c].bytes_residue = 0
             /\ chan'[c].status = "DMA_COMPLETE"]_vars

\* terminate_all has just returned on a channel that held a physical
\* channel and had descriptors on both queues.
C16_Witness ==
    /\ last.op = "terminate_all"
    /\ last.arg.phy # NoPhy
    /\ last.arg.pend > 0
    /\ last.arg.run > 0
    /\ chain_pending[last.c] = <<>>
    /\ chain_running[last.c] = <<>>

\* C20: the handler of an end interrupt of a physical channel that is not
\* bound to a logical channel returns without dereferencing the missing
\* channel, and leaves every queue, status and binding as it was.
C20_StaleInterruptIgnored ==
    [][\A p \in DOMAIN phy :
          (hw[p].dint /\ ~hw'[p].dint /\ phy[p].vchan = NoChan)
          => /\ ~oops'
             /\ UNCHANGED <<chan, chain_pending, chain_running, phy>>]_vars

(***************************************************************************)
(* Properties of channels that compete for a physical channel, checked     *)
(* under SpecWait                                                          *)
(***************************************************************************)
\* C17: a physical channel whose stop poll ended without the hardware
\* reporting the stopped state is not returned to the free pool by the
\* terminate_all that hit the timeout.
C17_TimeoutKeepsChannel ==
    (last.op = "terminate_all" /\ last.why = "timeout")
    => last.arg.phy \notin FreePool(phy)

\* Logical channel c waits: it has pending descriptors, no physical
\* channel, and has not been started.
Waits(c) ==
    /\ chain_pending[c] # <<>>
    /\ chan[c].phy = NoPhy
    /\ chan[c].status # "DMA_IN_PROGRESS"
    /\ EntryOf(chan[c].drcmr) = {}

\* C18: while every non-reserved physical channel is bound, issue_pending
\* on a further channel with pending descriptors binds nothing, keeps the
\* pending descriptors queued in order and does not set DMA_IN_PROGRESS;
\* the issue_pending that follows a terminate_all on a channel that held a
\* physical channel binds the waiting channel to a physical channel and
\* starts its first pending chain.
C18_WaitingChannel ==
    [][\A c \in DOMAIN chan :
          (IssuePending(c) /\ Waits(c))
          => /\ FreePool(phy) = {}
                => /\ chan'[c].phy = NoPhy
                   /\ phy' = phy
                   /\ chain_pending'[c] = chain_pending[c]
                   /\ chain_running'[c] = chain_running[c]
                   /\ chan'[c].status # "DMA_IN_PROGRESS"
             /\ (/\ last.op = "terminate_all"
                 /\ last.c # c
                 /\ last.arg.phy # NoPhy)
                => /\ chan'[c].phy # NoPhy
                   /\ phy'[chan'[c].phy].vchan = c
                   /\ chan'[c].status = "DMA_IN_PROGRESS"
                   /\ chain_running'[c] =
                         chain_running[c]
                         \o PendingPrefix(desc[c], chain_pending[c])
                   /\ chain_running'[c] \o chain_pending'[c] =
                         chain_running[c] \o chain_pending[c]
                   /\ hw'[chan'[c].phy].run
                   /\ hw'[chan'[c].phy].ddadr =
                         PhysOf(c, Head(chain_pending[c]))]_vars

\* A channel that had pending descriptors while another channel held the
\* only physical channel outside the reservation table has been started on
\* that physical channel by the issue_pending that followed the other
\* channel's terminate_all.
C18_Witness ==
    /\ last.op = "issue_pending"
    /\ last.why = "started"
    /\ last.arg.by # last.c
    /\ last.arg.phy # NoPhy
    /\ chan[last.c].phy = last.arg.phy
    /\ chan[last.c].status = "DMA_IN_PROGRESS"
    /\ chain_running[last.c] # <<>>

(***************************************************************************)
(* Properties of the residue, checked under SpecResidue                    *)
(***************************************************************************)
\* The cookie of the transfer at the head of the running list of c
RunningToken(c) ==
    LET t == HeadTransfer(desc[c], chain_running[c]) IN
    IF t = <<>> THEN 0 ELSE desc[c][t[Len(t)]].cookie

\* tx_status has just reported on the transfer channel c is running, with
\* the hardware at a position of that transfer.
AsksRunning(l, c) ==
    /\ l.op = "tx_status"
    /\ l.c = c
    /\ l.arg.pos # NoPos
    /\ l.arg.cookie = RunningToken(c)
    /\ chan[c].cyclic_first = NoDesc

\* C19: while the hardware moves forward through the descriptors of a
\* running non-cyclic transfer, successive residues reported for its
\* cookie do not increase; the residue is 0 when the hardware is at the end
\* of the last descriptor, and 0 for a cookie whose completion has been
\* processed.
C19_ResidueMonotone ==
    [][\A c \in DOMAIN chan :
          /\ (AsksRunning(last, c) /\ AsksRunning(last', c))
             => last'.ret <= last.ret
          /\ (/\ AsksRunning(last', c)
              /\ last'.arg.pos = EndPos(desc[c], chain_running[c]))
             => last'.ret = 0
          /\ (/\ last'.op = "tx_status"
              /\ last'.c = c
              /\ last'.arg.cookie <= chan[c].completed_cookie)
             => last'.ret = 0]_vars

(***************************************************************************)
(* Properties of the channel resources, checked under SpecLife             *)
(***************************************************************************)
\* C21: when free_chan_resources returns on a logical channel, both queues
\* are empty and their descriptors freed, the descriptor pool is gone, the
\* channel has no physical channel and its status is DMA_COMPLETE; the
\* alloc_chan_resources that follows creates a new, empty pool and
\* succeeds, or reports -ENOMEM and leaves the channel without a pool.
C21_FreeResources ==
    [][\A c \in DOMAIN chan :
          /\ (last'.op = "free_chan_resources" /\ last'.c = c)
             => /\ chain_pending'[c] = <<>>
                /\ chain_running'[c] = <<>>
                /\ alloc'[c] = {}
                /\ ~chan'[c].desc_pool
                /\ chan'[c].phy = NoPhy
                /\ \A p \in DOMAIN phy : phy'[p].vchan # c
                /\ chan'[c].status = "DMA_COMPLETE"
          /\ (last'.op = "alloc_chan_resources" /\ last'.c = c)
             => \/ /\ last'.ret = 1
                   /\ chan'[c].desc_pool
                   /\ alloc'[c] = {}
                   /\ chan'[c].status = "DMA_COMPLETE"
                \/ /\ last'.ret = 0 - ENOMEM
                   /\ ~chan'[c].desc_pool]_vars

\* free_chan_resources has just returned on a channel that held a
\* physical channel and had descriptors on both queues.
C21_Witness ==
    /\ last.op = "free_chan_resources"
    /\ last.arg.phy # NoPhy
    /\ last.arg.pend > 0
    /\ last.arg.run > 0
    /\ ~chan[last.c].desc_pool

(***************************************************************************)
(* Properties of the status query, checked under SpecResidue               *)
(***************************************************************************)
\* The tokens tx_submit has returned on channel c
Tokens(c) == {tokenLog[c][i] : i \in 1 .. Len(tokenLog[c])}

\* C22: tx_status returns DMA_COMPLETE for a token only if the completion
\* of the chain of that token has been processed; it does not for a chain
\* that is submitted and not yet started.
C22_CompleteOnlyWhenProcessed ==
    (/\ last.op = "tx_status"
     /\ last.arg.cookie \in Tokens(last.c)
     /\ last.why = "DMA_COMPLETE")
    => last.arg.cookie <= chan[last.c].completed_cookie

(***************************************************************************)
(* Properties of issue_pending, checked under Spec                         *)
(***************************************************************************)
\* C23: issue_pending on a channel whose status is DMA_IN_PROGRESS leaves
\* both queues, the physical channel, the status, the cached residue and
\* the descriptor address register as they were.
C23_IssueWhileBusy ==
    [][\A c \in DOMAIN chan :
          (IssuePending(c) /\ chan[c].status = "DMA_IN_PROGRESS")
          => /\ UNCHANGED <<chain_pending, chain_running, phy, hw>>
             /\ chan'[c].phy = chan[c].phy
             /\ chan'[c].status = chan[c].status
             /\ chan'[c].bytes_residue = chan[c].bytes_residue]_vars

\* A channel that is in progress with descriptors on both queues has no
\* runtime-PM count: only the qos_put of an issue_pending that found the
\* channel busy drops the count of a channel in progress.
C23_Witness ==
    \E c \in DOMAIN chan :
        /\ chan[c].status = "DMA_IN_PROGRESS"
        /\ chan[c].user_do_qos = 0
        /\ chan[c].qos_count = 0
        /\ chain_pending[c] # <<>>
        /\ chain_running[c] # <<>>

\* C24: issue_pending with an empty pending queue changes neither queue
\* and gives up the physical channel only if the channel is idle: the
\* running queue is empty and no transfer is in progress or paused.
C24_ReleaseOnlyWhenIdle ==
    [][\A c \in DOMAIN chan :
          (IssuePending(c) /\ chain_pending[c] = <<>>)
          => /\ UNCHANGED <<chain_pending, chain_running>>
             /\ (chan[c].phy # NoPhy /\ chan'[c].phy = NoPhy)
                => /\ chain_running[c] = <<>>
                   /\ chan[c].status
                         \notin {"DMA_IN_PROGRESS", "DMA_PAUSED"}]_vars

\* The index of the first descriptor of list that carries the stop marker
\* (the length of the list if none does)
StopIndex(d, list) ==
    LET stops == {k \in 1 .. Len(list) : d[list[k]].ddadr % 2 = DDADR_STOP}
    IN IF stops = {} THEN Len(list)
       ELSE CHOOSE k \in stops : \A j \in stops : k <= j

\* C25: issue_pending on a channel that is not in progress and has pending
\* descriptors, with a physical channel bound or free for it, moves the
\* pending descriptors up to and including the first stop-marked one to
\* the tail of the running queue and keeps the rest pending in order,
\* programs the address of the first running descriptor, starts the
\* physical channel, sets DMA_IN_PROGRESS and the cached residue to 0.
C25_IssueStarts ==
    [][\A c \in DOMAIN chan :
          (/\ IssuePending(c)
           /\ chan[c].status # "DMA_IN_PROGRESS"
           /\ chain_pending[c] # <<>>
           /\ \/ chan[c].phy # NoPhy
              \/ lookup_phy(phy, DmaChannels, chan[c].drcmr) # NoPhy)
          => LET k == StopIndex(desc[c], chain_pending[c])
                 p == chan'[c].phy
             IN /\ chain_running'[c] =
                      chain_running[c] \o SubSeq(chain_pending[c], 1, k)
                /\ chain_pending'[c] =
                      SubSeq(chain_pending[c], k + 1, Len(chain_pending[c]))
                /\ p # NoPhy
                /\ chan[c].phy # NoPhy => p = chan[c].phy
                /\ phy'[p].vchan = c
                /\ hw'[p].ddadr = PhysOf(c, Head(chain_running'[c]))
                /\ hw'[p].run
                /\ chan'[c].status = "DMA_IN_PROGRESS"
                /\ chan'[c].bytes_residue = 0]_vars

\* The first chain of a channel runs from its first descriptor while a
\* second chain is pending, and nothing has completed yet.
C25_Witness ==
    \E c \in DOMAIN chan :
        /\ chan[c].status = "DMA_IN_PROGRESS"
        /\ Len(chain_running[c]) = 1
        /\ chan[c].bytes_residue = 0
        /\ chain_pending[c] # <<>>
        /\ chan[c].phy # NoPhy
        /\ hw[chan[c].phy].run
        /\ hw[chan[c].phy].ddadr = PhysOf(c, Head(chain_running[c]))
        /\ signals = 0

(***************************************************************************)
(* Properties of the completion handler, checked under Spec                *)
(***************************************************************************)
\* The tasklet of channel c starts in this step.
TaskletStarts(c) ==
    tasklet[c].sched /\ tasklet[c].pc = "idle" /\ ~tasklet'[c].sched

\* C26: the completion handler that runs for a channel whose status is
\* DMA_COMPLETE returns without invoking a callback and without changing
\* the queues, the physical channel, the status or the cached residue.
C26_StaleSignalIgnored ==
    [][\A c \in DOMAIN tasklet :
          (TaskletStarts(c) /\ chan[c].status = "DMA_COMPLETE")
          => /\ tasklet'[c].pc = "idle"
             /\ UNCHANGED <<cbLog, chain_pending, chain_running, phy, chan,
                            desc, alloc>>]_vars

\* The tasklet has just returned at once on a channel that had submitted
\* transfers and an end interrupt delivered.
C26_Witness ==
    /\ last.op = "dma_do_tasklet"
    /\ last.why = "stopped"
    /\ signals > 0
    /\ tokenLog[last.c] # <<>>
    /\ tasklet[last.c].pc = "idle"

\* The non-cyclic branch of the tasklet of channel c does its dequeue in
\* this step.
TaskletDequeues(c) ==
    /\ tasklet[c].pc = "checked"
    /\ tasklet'[c].pc \in {"idle", "cleanup"}

\* The index of the first descriptor of list that has ENDIRQEN, 0 if none
EndIrqIndex(d, list) ==
    LET ends == {k \in 1 .. Len(list) : "ENDIRQEN" \in d[list[k]].dcmd}
    IN IF ends = {} THEN 0
       ELSE CHOOSE k \in ends : \A j \in ends : k <= j

\* C27: the completion handler of a non-cyclic channel in progress removes
\* from the head of the running queue the descriptors up to and including
\* the first with ENDIRQEN, marks complete the cookie of that descriptor,
\* which is the token tx_submit returned for its chain, and leaves the
\* status DMA_COMPLETE if the running queue is then empty and
\* DMA_IN_PROGRESS otherwise.
C27_DequeueCompletesToken ==
    [][\A c \in DOMAIN tasklet :
          LET run == chain_running[c]
              k == EndIrqIndex(desc[c], run)
              rest == SubSeq(run, k + 1, Len(run))
          IN
          (/\ TaskletDequeues(c)
           /\ chan[c].cyclic_first = NoDesc
           /\ chan[c].status = "DMA_IN_PROGRESS"
           /\ k > 0)
          => /\ \E j \in 0 .. Len(chain_pending[c]) :
                   /\ chain_running'[c] =
                         rest \o SubSeq(chain_pending[c], 1, j)
                   /\ chain_pending'[c] =
                         SubSeq(chain_pending[c], j + 1,
                                Len(chain_pending[c]))
                   /\ rest # <<>> => j = 0
             /\ Linked(tasklet'[c].cleanup) = Linked(SubSeq(run, 1, k))
             /\ chan'[c].completed_cookie = desc[c][run[k]].cookie
             /\ chan'[c].completed_cookie = desc[c][run[k]].tok
             /\ chan'[c].completed_cookie \in Tokens(c)
             /\ chan'[c].status =
                   IF chain_running'[c] = <<>> THEN "DMA_COMPLETE"
                   ELSE "DMA_IN_PROGRESS"]_vars

\* The tasklet of channel c is invoking a client callback.
InCallback(c) == tasklet[c].pc \in {"cyclic_cb", "cleanup"}

C30_CheckAndDequeueAtomic ==
    [][\A c \in DOMAIN tasklet :
          (/\ tasklet[c].pc = "checked"
           /\ tasklet'[c].pc = "checked"
           /\ \/ TxSubmit(c)
              \/ IssuePending(c)
              \/ TerminateAll(c, BOOLEAN))
          => /\ chain_pending'[c] = chain_pending[c]
             /\ chain_running'[c] = chain_running[c]
             /\ chan'[c].status = chan[c].status
             /\ chan'[c].phy = chan[c].phy]_vars

(***************************************************************************)
(* Progress of submitted chains, checked under SpecLive                    *)
(***************************************************************************)
\* The chain of token k is submitted on channel c, not completed, and the
\* channel has been started.
Started(c, k) ==
    /\ k \in Tokens(c)
    /\ k > chan[c].completed_cookie
    /\ chan[c].status = "DMA_IN_PROGRESS"

\* The chain of token k is completed and its callback invoked.
Done(c, k) ==
    /\ chan[c].completed_cookie >= k
    /\ \E i \in 1 .. Len(cbLog[c]) : cbLog[c][i].tok = k /\ cbLog[c][i].cb

\* C28: once the channel has been started with submitted non-cyclic
\* chains, every one of them is eventually completed and its callback
\* invoked, with no further call of the client: the handling of each
\* completion starts the next pending chain.
C28_AllChainsComplete ==
    \A c \in Clients : \A k \in 1 .. MaxCookie :
        Started(c, k) ~> Done(c, k)

\* Two chains have been completed one after the other and both callbacks
\* invoked; the channel is idle again.
C28_Witness ==
    \E c \in Clients :
        /\ Done(c, 1) /\ Done(c, 2)
        /\ signals = 2
        /\ chan[c].status = "DMA_COMPLETE"
        /\ chain_running[c] = <<>> /\ chain_pending[c] = <<>>
        /\ tasklet[c].pc = "idle"

(***************************************************************************)
(* The value of the residue, checked under SpecResidue                     *)
(***************************************************************************)
\* The bytes the hardware has still to move of the transfer at the head of
\* the running list of c when it is at position i: the rest of the
\* descriptor it is at and all of the descriptors after it.
BytesLeft(c, i) ==
    LET t == HeadTransfer(desc[c], chain_running[c])
        k == (i \div 3) + 1
        sw == desc[c][t[k]]
        start == IF chan[c].dir = "DMA_DEV_TO_MEM" THEN sw.dtadr ELSE sw.dsadr
        curr == LiveAddress(desc[c], chain_running[c], chan[c].dir, i)
    IN (start + sw.len - curr)
       + SumSeq([j \in 1 .. Len(t) - k |-> desc[c][t[k + j]].len])

\* C31: tx_status reports the cached residue of a channel without a
\* physical channel; for the cookie of a running non-cyclic transfer, with
\* the hardware at a position of descriptor d of it, it reports the
\* distance of the position to the end of d plus the lengths of the
\* descriptors of the transfer after d.
C31_ResidueValue ==
    \A c \in Clients :
        (last.op = "tx_status" /\ last.c = c)
        => /\ chan[c].phy = NoPhy => last.ret = chan[c].bytes_residue
           /\ AsksRunning(last, c) => last.ret = BytesLeft(c, last.arg.pos)

(***************************************************************************)
(* Properties of the chains of the copy and scatterlist builders, checked  *)
(* under SpecBuild                                                          *)
(***************************************************************************)
\* C32: in a chain returned by prep_memcpy or prep_slave_sg every
\* descriptor but the last points at its successor and has neither
\* ENDIRQEN nor the stop marker; the last descriptor of the chain has both.
C32_ChainLinks ==
    (last.op \in {"prep_memcpy", "prep_slave_sg"} /\ last.why = "ok")
    => LET n == Len(last.ret)
           d == desc[last.c]
       IN
       /\ n > 0
       /\ \A i \in 1 .. n - 1 :
             /\ d[last.ret[i]].ddadr = PhysOf(last.c, last.ret[i + 1])
             /\ d[last.ret[i]].ddadr % 2 # DDADR_STOP
             /\ "ENDIRQEN" \notin d[last.ret[i]].dcmd
       /\ d[last.ret[n]].ddadr = DDADR_STOP
       /\ "ENDIRQEN" \in d[last.ret[n]].dcmd

\* A scatterlist of two entries has given a chain of several descriptors.
C32_Witness ==
    /\ last.op = "prep_slave_sg"
    /\ last.why = "ok"
    /\ Len(last.arg.sgl) = 2
    /\ Len(last.ret) >= 2

\* The sum of the length fields of the first k descriptors of chain ret
Consumed(c, ret, k) == SumSeq(SubSeq(ChainLens(c, ret), 1, k))

\* C33: in a chain built by prep_memcpy the memory-side address of the
\* k-th descriptor is the request's address of that side plus the lengths
\* of the descriptors before it (both sides for DMA_MEM_TO_MEM), and for
\* DMA_MEM_TO_DEV and DMA_DEV_TO_MEM the device-side address of every
\* descriptor is the device address configured for the channel.
C33_MemcpyAddresses ==
    (last.op = "prep_memcpy" /\ last.why = "ok")
    => LET c == last.c
           dir == chan[c].dir
       IN
       \A k \in 1 .. Len(last.ret) :
          LET sw == desc[c][last.ret[k]]
              off == Consumed(c, last.ret, k - 1)
          IN
          /\ dir \in {"DMA_MEM_TO_DEV", "DMA_MEM_TO_MEM"}
             => sw.dsadr = last.arg.src + off
          /\ dir \in {"DMA_DEV_TO_MEM", "DMA_MEM_TO_MEM"}
             => sw.dtadr = last.arg.dst + off
          /\ dir = "DMA_MEM_TO_DEV" => sw.dtadr = chan[c].dev_addr
          /\ dir = "DMA_DEV_TO_MEM" => sw.dsadr = chan[c].dev_addr

(***************************************************************************)
(* Properties of cyclic_first, checked under Spec                          *)
(***************************************************************************)
\* C34: in every state cyclic_first is unset or refers to a descriptor
\* that is on the channel's running list: it is not set while a non-cyclic
\* transfer runs, and refers neither to a descriptor that is not queued yet
\* nor to one that terminate_all has freed.
C34_CyclicFirstRuns ==
    \A c \in Clients :
        chan[c].cyclic_first # NoDesc
        => chan[c].cyclic_first \in Range(chain_running[c])

(***************************************************************************)
(* Properties of disable_chan, checked under SpecPoll                      *)
(***************************************************************************)
\* C35: disable_chan returns whatever the hardware does: it reads the
\* stop-state bit at most 1000 times, and when it returns without having
\* seen the bit set it has warned.
C35_DisableTerminates ==
    /\ [](last.op = "disable_chan" => last.arg.reads <= PollRounds)
    /\ [](/\ last.op = "disable_chan"
          /\ last.why \in {"stopped", "warned"}
          => (last.why = "warned" <=> ~last.arg.stopstate))
    /\ Polling ~> (last.op = "disable_chan"
                   /\ last.why \in {"stopped", "warned"})

\* The hardware never stopped: disable_chan has read the bit 1000 times,
\* warned and returned with the channel still running.
C35_Witness ==
    /\ last.op = "disable_chan"
    /\ last.why = "warned"
    /\ last.arg.reads = PollRounds
    /\ hw[last.arg.phy].run

(***************************************************************************)
(* Properties of cancelled transfers, checked under SpecCancel             *)
(***************************************************************************)
\* C36: the completion handler completes a chain that ends with the stop
\* marker only on the end signal the hardware raised for that chain, that
\* is, when the physical channel of the chain has moved it and stopped: a
\* signal of a transfer that terminate_all cancelled does not complete the
\* chain submitted and issued after it.
C36_NoStaleCompletion ==
    [][\A c \in Clients :
          LET run == chain_running[c]
              k == EndIrqIndex(desc[c], run)
          IN
          (/\ TaskletDequeues(c)
           /\ chan[c].cyclic_first = NoDesc
           /\ k > 0
           /\ desc[c][run[k]].ddadr = DDADR_STOP)
          => /\ chan[c].phy # NoPhy
             /\ ~hw[chan[c].phy].run]_vars

\* C37: once terminate_all has returned on a channel, no callback of a
\* chain submitted on it before the call is invoked, also when the tasklet
\* had moved the chain to its cleanup list before terminate_all ran; in
\* particular the step that follows the return invokes none.
C37_NoCallbackAfterTerminate ==
    [][\A c \in Clients :
          (last.op = "terminate_all" /\ last.c = c)
          => cbLog'[c] = cbLog[c]]_vars

(***************************************************************************)
(* Ownership of the descriptors, checked under SpecDir                     *)
(***************************************************************************)
\* The number of places descriptor s of channel c is in: the chains built
\* and not submitted, the positions of the pending and of the running
\* list, and the positions of the cleanup list of the tasklet.
Places(c, s) ==
    Cardinality({tx \in prepared[c] : s \in Range(tx)})
    + Cardinality({i \in 1 .. Len(chain_pending[c]) :
                      chain_pending[c][i] = s})
    + Cardinality({i \in 1 .. Len(chain_running[c]) :
                      chain_running[c][i] = s})
    + Cardinality({i \in 1 .. Len(tasklet[c].cleanup) :
                      tasklet[c].cleanup[i] = s})

\* C38: every descriptor allocated from the pool of a channel is in
\* exactly one place among a chain built and not submitted, the pending
\* list, the running list and the cleanup list of the tasklet, so that it
\* is freed at most once; a descriptor that is free is on no list.
C38_OneOwner ==
    \A c \in Chans : \A s \in PoolSlots(c) :
        Places(c, s) = IF s \in alloc[c] THEN 1 ELSE 0

(***************************************************************************)
(* Properties of the builders' direction test, checked under SpecDir       *)
(***************************************************************************)
\* C39: prep_slave_sg called with a direction other than DMA_MEM_TO_DEV
\* and DMA_DEV_TO_MEM, and prep_memcpy on a channel whose direction is
\* none of DMA_MEM_TO_MEM, DMA_MEM_TO_DEV and DMA_DEV_TO_MEM, return NULL
\* and leave allocated the descriptors that were allocated before the
\* call, and no others.
C39_WrongDirectionUnwinds ==
    [][(last'.op \in {"prep_memcpy", "prep_slave_sg"} /\ last'.why = "dir")
       => (/\ last'.ret = <<>>
           /\ alloc' = alloc
           /\ UNCHANGED <<prepared, chain_pending, chain_running>>)]_vars

(***************************************************************************)
(* Properties of the power reference, checked under Spec                   *)
(***************************************************************************)
\* C40: on a channel whose power reference the engine manages
\* (user_do_qos = 0) qos_count is 0 or 1, and it is 1 in every state in
\* which the status is DMA_IN_PROGRESS, whatever issue_pending calls are
\* made while the transfer runs.
C40_QosHeldWhileBusy ==
    \A c \in Clients :
        chan[c].user_do_qos = 0
        => /\ chan[c].qos_count \in {0, 1}
           /\ chan[c].status = "DMA_IN_PROGRESS" => chan[c].qos_count = 1

=============================================================================
